---- MODULE Spec2Model ----
(***************************************************************************)
(* State-machine model of the CoBuild knowledge pipeline: the web crawler  *)
(* (CrawlService / CrawlWorker), the Q&A and text-training services, the   *)
(* training worker and the embedding store.                                *)
(*                                                                         *)
(* Every await of the TypeScript code is a step boundary: one action of    *)
(* the model is the synchronous code between two awaits together with the  *)
(* single store / network operation that the await waits for.              *)
(***************************************************************************)
EXTENDS Integers, Sequences, FiniteSets, TLC

(***************************************************************************)
(* Bounds of the model                                                     *)
(***************************************************************************)
\* number of pages of the crawled site (page 0 is the seed)
NumPages == 12
\* how many fetches of one environment may end other than with an HTML page
MaxFetchFaults == 1
\* how many store operations of one environment may throw
MaxDbFaults == 1
\* how many times the queue may redeliver an active crawl job (stalled lock)
MaxStalls == 1
\* how many service calls (create, update, delete, upsert) one run makes
MaxCalls == 2
\* how many times the API process may die in the middle of a service call
MaxCrashes == 1
\* store / provider failures during the attempts of one training job
MaxRetryFaults == 2
\* how many sources are created, one training job each, for two workers
MaxPairCalls == 2
\* store / provider failures of an outage that lasts through every attempt
MaxOutageFaults == 4

(***************************************************************************)
(* Program constants                                                       *)
(***************************************************************************)
\* attempts: 3 of crawlQueue.add / trainingQueue.add
QueueAttempts == 3
\* confirmedLimit ?? 50
DefaultLimit == 50
\* pagesCrawled % 10 === 0 : cancellation re-check period
CancelCheckEvery == 10
\* pagesCrawled % 5 === 0 : counter persistence period
PersistEvery == 5
\* chunkText(text, chunkSize = 500, overlap = 50)
DefaultChunkSize == 500
DefaultOverlap == 50

Null == "null"
Infinity == 1000000

(***************************************************************************)
(* URLs.  A raw string is modelled by the parts the WHATWG URL parser      *)
(* splits it into.  kind "abs" is an absolute URL, "rel" a path-absolute   *)
(* reference ("/p3"), "bad" a string that new URL() rejects.               *)
(* path is the pathname as a sequence of tokens: 0 is the character "/",   *)
(* n > 0 is the segment name "p<n>".  The pathname of a parsed absolute    *)
(* http(s) URL always starts with "/".                                     *)
(***************************************************************************)
MkUrl(kind, scheme, host, path, frag) ==
  [kind |-> kind, scheme |-> scheme, host |-> host, path |-> path, frag |-> frag]

\* new URL(rawUrl) succeeds
CanParse(raw) == raw.kind = "abs"

\* new URL(href, base) succeeds (base is an absolute URL)
CanResolve(href) == href.kind \in {"abs", "rel"}

\* new URL(href, base)
Resolve(href, base) ==
  IF href.kind = "rel"
    THEN MkUrl("abs", base.scheme, base.host, href.path, href.frag)
    ELSE href

\* URL.origin: scheme, host (and port) of http(s) URLs, opaque "null" otherwise
Origin(u) ==
  IF u.scheme \in {"http", "https"} THEN <<u.scheme, u.host>> ELSE <<"null">>

\* resolved.hash = ''
StripHash(u) == [u EXCEPT !.frag = ""]

\* str.endsWith('/') for the serialisation of a URL without fragment
EndsWithSlash(u) == Len(u.path) > 0 /\ u.path[Len(u.path)] = 0

\* str.slice(0, -1)
DropLastChar(u) == [u EXCEPT !.path = SubSeq(u.path, 1, Len(u.path) - 1)]

\* a normalizeUrl that keeps the trailing slash
normalizeUrlKeepSlash(rawUrl) ==
  IF ~CanParse(rawUrl) THEN rawUrl ELSE StripHash(rawUrl)

normalizeUrl(rawUrl) ==
  IF ~CanParse(rawUrl)
    THEN rawUrl
    ELSE LET parsed == StripHash(rawUrl)
         IN  IF EndsWithSlash(parsed) /\ parsed.path # <<0>>
               THEN DropLastChar(parsed)
               ELSE parsed

(***************************************************************************)
(* The crawled web site: the environment of fetch().                       *)
(***************************************************************************)
SiteHost == "a.test"
OtherHost == "b.test"

PagePath(i) == IF i = 0 THEN <<0>> ELSE <<0, i>>
PageUrl(i) == MkUrl("abs", "https", SiteHost, PagePath(i), "")

\* the a[href] values of page i, in document order
PageLinks(i) ==
  LET child1 == 2 * i + 1
      child2 == 2 * i + 2
  IN  <<MkUrl("abs", "https", SiteHost, <<0>>, "nav")>>                     \* back to the root, with fragment
      \o (IF child1 < NumPages
            THEN <<MkUrl("rel", "", "", PagePath(child1), "")>>              \* "/p<c1>"
            ELSE <<>>)
      \o (IF child2 < NumPages
            THEN <<MkUrl("abs", "https", SiteHost, PagePath(child2) \o <<0>>, "top")>>  \* ".../p<c2>/#top"
            ELSE <<>>)
      \o (IF i + 1 < NumPages
            THEN <<MkUrl("abs", "https", SiteHost, PagePath(i + 1), "")>>    \* next page: a second way to reach it
            ELSE <<>>)
      \o <<MkUrl("abs", "https", OtherHost, <<0>>, ""),                     \* other host
           MkUrl("abs", "http", SiteHost, PagePath(1), ""),                  \* same host, other scheme
           MkUrl("abs", "mailto", "", <<>>, ""),                             \* mailto:
           MkUrl("bad", "", "", <<>>, "")>>                                 \* unparseable href

\* the page a URL serves, or -1 when the server has none
PageOf(u) ==
  IF \E i \in 0..(NumPages - 1) : PageUrl(i) = u
    THEN CHOOSE i \in 0..(NumPages - 1) : PageUrl(i) = u
    ELSE -1

(***************************************************************************)
(* State                                                                   *)
(***************************************************************************)
VARIABLES
  env,            \* the environment's remaining fault budgets and the active workers
  crawlJob,       \* the CrawlJob row of job "job1" (NoJob before startCrawl)
  crawledPages,   \* the CrawledPage rows, in creation order
  crawlQueue,     \* the BullMQ entry of the crawl job
  cw,             \* per crawl worker: position and locals of processCrawlJob
  cancel,         \* position and locals of one cancelJob call; history: at, was
  fetched,        \* history: the frontier items handed to fetch(), in order
  qnaPairs,       \* the QnaPair rows
  textTraining,   \* the TextTraining row of the chatbot
  embeddings,     \* the embeddings table, in insertion order
  trainingQueue,  \* the BullMQ entries of the training queue
  tw,             \* position and locals of the training worker
  svc,            \* the remaining steps and the locals of one service call
  calc,           \* input and result of a pure function under evaluation
  chat            \* position, locals and call history of one chat turn

\* what the crawl actions and what the training actions leave alone
offCrawl == <<qnaPairs, textTraining, embeddings, trainingQueue, tw, svc, calc, chat>>
offTrain == <<crawlJob, crawledPages, crawlQueue, cw, cancel, fetched, calc, chat>>
offCalc == <<crawlJob, crawledPages, crawlQueue, cw, cancel, fetched,
             qnaPairs, textTraining, embeddings, trainingQueue, tw, svc, chat>>
vars == <<env, crawlJob, crawledPages, crawlQueue, cw, cancel, fetched,
          qnaPairs, textTraining, embeddings, trainingQueue, tw, svc, calc, chat>>

Workers == {"w1", "w2"}
JobIds == {"job1", "job2"}
NoJob == [status |-> "NONE"]

QUEUED == "QUEUED"
PROCESSING == "PROCESSING"
COMPLETED == "COMPLETED"
FAILED == "FAILED"
CANCELLED == "CANCELLED"

(***************************************************************************)
(* Fault budgets of the environment                                        *)
(***************************************************************************)
\* a store operation may throw while the environment has budget left
DbMayFail == env.dbFaults > 0
UseDbFault == env' = [env EXCEPT !.dbFaults = @ - 1]
FetchMayFail == env.fetchFaults > 0
UseFetchFault == env' = [env EXCEPT !.fetchFaults = @ - 1]

(***************************************************************************)
(* CrawlService.startCrawl                                                 *)
(***************************************************************************)
\* the <<maxDepth, confirmedLimit>> pairs the model explores, among those the
\* DTO admits (maxDepth >= -1, confirmedLimit >= 1 or absent); a limit of 0
\* stands for the null of a job created without confirmedLimit
JobInputs == {<<-1, 0>>, <<0, 3>>, <<1, 3>>, <<-1, 3>>}

startCrawl(maxDepth, confirmedLimit) ==
  /\ crawlJob = NoJob
  /\ crawlJob' = [status |-> QUEUED, url |-> PageUrl(0),
                  maxDepth |-> maxDepth, confirmedLimit |-> confirmedLimit,
                  pagesFound |-> 0, pagesCrawled |-> 0, pagesFailed |-> 0,
                  errorMessage |-> Null, started |-> FALSE, completedAt |-> FALSE]
  /\ crawlQueue' = [state |-> "waiting", attemptsMade |-> 0, owner |-> "none"]
  /\ UNCHANGED <<env, crawledPages, cw, cancel, fetched, offCrawl>>

(***************************************************************************)
(* CrawlService.cancelJob: a read of the job, then a write of CANCELLED    *)
(***************************************************************************)
\* a guard that forgets the already-cancelled case
CancelRejectsCompletedOnly(status) == status = COMPLETED

\* the guard of cancelJob: these statuses are rejected
CancelRejects(status) == status \in {COMPLETED, CANCELLED}

\* findUnique({ where: { id: jobId } }) and the two guards
cancelJobRead(jobId) ==
  /\ cancel.pc = "idle"
  /\ LET job == IF jobId = "job1" THEN crawlJob ELSE NoJob
     IN  cancel' =
           IF job = NoJob
             THEN [pc |-> "idle", read |-> "NONE", result |-> "NotFound",
                   at |-> cancel.at, was |-> cancel.was]
             ELSE IF CancelRejects(job.status)
               THEN [pc |-> "idle", read |-> job.status, result |-> "BadRequest",
                   at |-> cancel.at, was |-> cancel.was]
               ELSE [pc |-> "write", read |-> job.status, result |-> "pending",
                   at |-> cancel.at, was |-> cancel.was]
  /\ UNCHANGED <<env, crawlJob, crawledPages, crawlQueue, cw, fetched, offCrawl>>

\* history of the write of CANCELLED, kept in the environment that counts
\* URL attempts: the number of fetches made so far and the status overwritten
CancelHistory(v, none) == IF env.kind = "cancel" THEN v ELSE none

\* update({ data: { status: CANCELLED, completedAt } })
cancelJobWrite ==
  /\ cancel.pc = "write"
  /\ \/ /\ crawlJob' = [crawlJob EXCEPT !.status = CANCELLED, !.completedAt = TRUE]
        /\ cancel' = [cancel EXCEPT !.pc = "idle", !.result = "ok",
                                     !.at = CancelHistory(Len(fetched), 0),
                                     !.was = CancelHistory(crawlJob.status, "NONE")]
        /\ UNCHANGED env
     \/ /\ DbMayFail
        /\ UseDbFault
        /\ cancel' = [cancel EXCEPT !.pc = "idle", !.result = "error"]
        /\ UNCHANGED crawlJob
  /\ UNCHANGED <<crawledPages, crawlQueue, cw, fetched, offCrawl>>

(***************************************************************************)
(* The crawl queue (BullMQ): delivery, retry after a throw, redelivery of  *)
(* a job whose lock was lost.                                              *)
(***************************************************************************)
IdleCrawlWorker ==
  [pc |-> "idle", limit |-> 0, maxDepth |-> 0, seed |-> PageUrl(0),
   visited |-> {}, queue |-> <<>>,
   pagesFound |-> 0, pagesCrawled |-> 0, pagesFailed |-> 0,
   item |-> [url |-> PageUrl(0), depth |-> 0], normalizedUrl |-> PageUrl(0),
   errorMessage |-> Null]

\* the queue entry after worker w's process() returned (threw = FALSE) or threw
CrawlQueueAfter(w, threw) ==
  IF crawlQueue.owner # w
    THEN crawlQueue                     \* the lock was lost: the result is dropped
    ELSE IF ~threw
      THEN [crawlQueue EXCEPT !.state = "completed", !.owner = "none"]
      ELSE IF crawlQueue.attemptsMade + 1 < QueueAttempts
        THEN [crawlQueue EXCEPT !.state = "waiting", !.owner = "none",
                                !.attemptsMade = @ + 1]
        ELSE [crawlQueue EXCEPT !.state = "failed", !.owner = "none",
                                !.attemptsMade = @ + 1]

\* CrawlWorker.process is handed the job
crawlPickup(w) ==
  /\ w \in env.active
  /\ cw[w].pc = "idle"
  /\ crawlQueue.state = "waiting"
  /\ crawlQueue' = [crawlQueue EXCEPT !.state = "active", !.owner = w]
  /\ cw' = [cw EXCEPT ![w] = [IdleCrawlWorker EXCEPT !.pc = "read"]]
  /\ UNCHANGED <<env, crawlJob, crawledPages, cancel, fetched, offCrawl>>

\* the queue declares the active job stalled and makes it deliverable again
crawlStall ==
  /\ crawlQueue.state = "active"
  /\ env.stalls > 0
  /\ env' = [env EXCEPT !.stalls = @ - 1]
  /\ crawlQueue' = [crawlQueue EXCEPT !.state = "waiting", !.owner = "none"]
  /\ UNCHANGED <<crawlJob, crawledPages, cw, cancel, fetched, offCrawl>>

\* process() of worker w ends
CrawlReturn(w, threw) ==
  /\ cw' = [cw EXCEPT ![w] = IdleCrawlWorker]
  /\ crawlQueue' = CrawlQueueAfter(w, threw)

(***************************************************************************)
(* CrawlService.processCrawlJob: the conditions of the traversal           *)
(***************************************************************************)
\* const limit = job.confirmedLimit ?? 50
LimitOf(job) == IF job.confirmedLimit = 0 THEN DefaultLimit ELSE job.confirmedLimit

\* const maxDepth = job.maxDepth === -1 ? Infinity : job.maxDepth
MaxDepthOf(job) == IF job.maxDepth = -1 THEN Infinity ELSE job.maxDepth

\* a loop guard that admits one page too many
LoopGuardOffByOne(queue, pagesCrawled, limit) ==
  Len(queue) > 0 /\ pagesCrawled <= limit

\* while (queue.length > 0 && pagesCrawled < limit)
LoopGuard(queue, pagesCrawled, limit) ==
  Len(queue) > 0 /\ pagesCrawled < limit

\* if (pagesCrawled > 0 && pagesCrawled % 10 === 0)
CheckDue(pagesCrawled) ==
  pagesCrawled > 0 /\ pagesCrawled % CancelCheckEvery = 0

\* if (pagesCrawled % 5 === 0)
PersistDue(pagesCrawled) == pagesCrawled % PersistEvery = 0

\* a depth guard that follows the links of pages at depth maxDepth
FollowLinksInclusive(depth, maxDepth, pagesCrawled, limit) ==
  depth <= maxDepth /\ pagesCrawled < limit

\* if (item.depth < maxDepth && pagesCrawled < limit)
FollowLinks(depth, maxDepth, pagesCrawled, limit) ==
  depth < maxDepth /\ pagesCrawled < limit

\* a link filter that compares hosts only
LinkAcceptedSameHost(resolved, baseUrl) ==
  /\ resolved.host = baseUrl.host
  /\ resolved.scheme \in {"http", "https"}

\* resolved.origin === baseUrl.origin, protocol is http: or https:
LinkAccepted(resolved, baseUrl) ==
  /\ Origin(resolved) = Origin(baseUrl)
  /\ resolved.scheme \in {"http", "https"}

\* $('a[href]').each(...): the items the callback pushes, in document order
RECURSIVE ExtractLinks(_, _, _, _)
ExtractLinks(hrefs, normalizedUrl, visited, depth) ==
  IF hrefs = <<>>
    THEN <<>>
    ELSE LET href == Head(hrefs)
             rest == ExtractLinks(Tail(hrefs), normalizedUrl, visited, depth)
         IN  IF ~CanResolve(href)
               THEN rest                                       \* new URL throws: skipped
               ELSE LET resolved == Resolve(href, normalizedUrl)
                        resolvedStr == StripHash(resolved)
                    IN  IF /\ LinkAccepted(resolved, normalizedUrl)
                           /\ normalizeUrl(resolvedStr) \notin visited
                          THEN <<[url |-> resolvedStr, depth |-> depth + 1]>> \o rest
                          ELSE rest

\* a frontier that puts the links of a page in front of the waiting items
FrontierAfterPageDepthFirst(l) ==
  IF FollowLinks(l.item.depth, l.maxDepth, l.pagesCrawled, l.limit)
    THEN ExtractLinks(PageLinks(PageOf(l.normalizedUrl)),
                      l.normalizedUrl, l.visited, l.item.depth) \o l.queue
    ELSE l.queue

\* the frontier after the link extraction of the page just stored by worker w
\* (l is the worker's locals with pagesCrawled already incremented)
FrontierAfterPage(l) ==
  IF FollowLinks(l.item.depth, l.maxDepth, l.pagesCrawled, l.limit)
    THEN l.queue \o ExtractLinks(PageLinks(PageOf(l.normalizedUrl)),
                                 l.normalizedUrl, l.visited, l.item.depth)
    ELSE l.queue

(***************************************************************************)
(* CrawlService.processCrawlJob: the steps                                 *)
(***************************************************************************)
\* findUnique of the job, the not-found and the CANCELLED early returns
crawlRead(w) ==
  /\ cw[w].pc = "read"
  /\ \/ /\ crawlJob = NoJob \/ crawlJob.status = CANCELLED
        /\ CrawlReturn(w, FALSE)
        /\ UNCHANGED env
     \/ /\ crawlJob # NoJob /\ crawlJob.status # CANCELLED
        /\ cw' = [cw EXCEPT ![w].pc = "setProcessing",
                            ![w].limit = LimitOf(crawlJob),
                            ![w].maxDepth = MaxDepthOf(crawlJob),
                            ![w].seed = crawlJob.url]
        /\ UNCHANGED <<env, crawlQueue>>
     \/ /\ DbMayFail
        /\ UseDbFault
        /\ CrawlReturn(w, TRUE)
  /\ UNCHANGED <<crawlJob, crawledPages, cancel, fetched, offCrawl>>

\* update status PROCESSING, then the initialisation of the locals
crawlSetProcessing(w) ==
  /\ cw[w].pc = "setProcessing"
  /\ \/ /\ crawlJob' = [crawlJob EXCEPT !.status = PROCESSING, !.started = TRUE]
        /\ cw' = [cw EXCEPT ![w].pc = "loop",
                            ![w].visited = {},
                            ![w].pagesFound = 0,
                            ![w].pagesCrawled = 0,
                            ![w].pagesFailed = 0,
                            ![w].queue = <<[url |-> cw[w].seed, depth |-> 0]>>]
        /\ UNCHANGED <<env, crawlQueue>>
     \/ /\ DbMayFail
        /\ UseDbFault
        /\ CrawlReturn(w, TRUE)                  \* thrown outside the try block
        /\ UNCHANGED crawlJob
  /\ UNCHANGED <<crawledPages, cancel, fetched, offCrawl>>

\* a visited test that never skips
AlreadyVisitedNever(normalizedUrl, visited) == FALSE

\* if (visited.has(normalizedUrl)) continue
AlreadyVisited(normalizedUrl, visited) == normalizedUrl \in visited

\* one evaluation of the while condition, the periodic status re-read,
\* queue.shift(), the visited test and pagesFound++
crawlLoop(w) ==
  LET l == cw[w]
      item == Head(l.queue)
      normalizedUrl == normalizeUrl(item.url)
  IN
  /\ l.pc = "loop"
  /\ IF ~LoopGuard(l.queue, l.pagesCrawled, l.limit)
       THEN /\ cw' = [cw EXCEPT ![w].pc = "finish"]
            /\ UNCHANGED env
       ELSE \/ /\ CheckDue(l.pagesCrawled)
               /\ crawlJob.status = CANCELLED
               /\ cw' = [cw EXCEPT ![w].pc = "finish"]          \* break
               /\ UNCHANGED env
            \/ /\ CheckDue(l.pagesCrawled)
               /\ DbMayFail
               /\ UseDbFault
               /\ cw' = [cw EXCEPT ![w].pc = "markFailed", ![w].errorMessage = "db error"]
            \/ /\ ~(CheckDue(l.pagesCrawled) /\ crawlJob.status = CANCELLED)
               /\ IF AlreadyVisited(normalizedUrl, l.visited)
                    THEN cw' = [cw EXCEPT ![w].queue = Tail(l.queue),      \* continue
                                          ![w].item = item,
                                          ![w].normalizedUrl = normalizedUrl]
                    ELSE cw' = [cw EXCEPT ![w].queue = Tail(l.queue),
                                          ![w].item = item,
                                          ![w].normalizedUrl = normalizedUrl,
                                          ![w].visited = @ \cup {normalizedUrl},
                                          ![w].pagesFound = @ + 1,
                                          ![w].pc = "fetch"]
               /\ UNCHANGED env
  /\ UNCHANGED <<crawlJob, crawledPages, crawlQueue, cancel, fetched, offCrawl>>

\* a catch block that gives the whole job up
InnerCatchAborts(w, msg) ==
  cw' = [cw EXCEPT ![w].pc = "markFailed",
                   ![w].pagesFailed = @ + 1,
                   ![w].errorMessage = msg]

\* the inner catch block after a throw inside the inner try: pagesFailed++,
\* then on to the creation of the FAILED page
InnerCatch(w, msg) ==
  cw' = [cw EXCEPT ![w].pc = "recordFailed",
                   ![w].pagesFailed = @ + 1,
                   ![w].errorMessage = msg]

\* the error messages of a fetch that throws: !response.ok, timeout, transport
FetchErrors == {"HTTP 500", "timeout", "transport error"}

\* await fetch(normalizedUrl) and the processing of the response up to the
\* next await
crawlFetch(w) ==
  LET l == cw[w] IN
  /\ l.pc = "fetch"
  /\ fetched' = Append(fetched, [url |-> l.normalizedUrl, depth |-> l.item.depth, by |-> w])
  /\ \/ /\ PageOf(l.normalizedUrl) = -1              \* the server has no such page
        /\ InnerCatch(w, "HTTP 404")
        /\ UNCHANGED env
     \/ /\ PageOf(l.normalizedUrl) # -1
        /\ cw' = [cw EXCEPT ![w].pc = "storePage"]
        /\ UNCHANGED env
     \/ /\ PageOf(l.normalizedUrl) # -1
        /\ FetchMayFail
        /\ UseFetchFault
        /\ \/ \E msg \in FetchErrors :               \* !response.ok, timeout, network
                InnerCatch(w, msg)
           \/ cw' = [cw EXCEPT ![w].pc = "loop"]     \* non-HTML or no text: continue
  /\ UNCHANGED <<crawlJob, crawledPages, crawlQueue, cancel, offCrawl>>

\* the text extracted from page i (never empty: a page without text is skipped)
PageText(i) == <<"page", " ", "text">>

\* the data of crawledPage.create: id is randomUUID(), here "pg" and the row's number;
\* isSelected defaults to false; storagePath holds the extracted text and is
\* <<>> where the row has none
NewPage(url, status, errorMessage, storagePath) ==
  [id |-> "pg" \o ToString(Len(crawledPages) + 1), jobId |-> "job1", url |-> url, status |-> status,
   errorMessage |-> errorMessage, storagePath |-> storagePath, isSelected |-> FALSE]

\* crawledPage.create (COMPLETED), pagesCrawled++, and, unless the counters
\* are due, the link extraction
crawlStorePage(w) ==
  LET l == cw[w]
      n == [l EXCEPT !.pagesCrawled = @ + 1]
  IN
  /\ l.pc = "storePage"
  /\ \/ /\ crawledPages' = Append(crawledPages,
                                  NewPage(l.normalizedUrl, COMPLETED, Null,
                                          PageText(PageOf(l.normalizedUrl))))
        /\ IF PersistDue(n.pagesCrawled)
             THEN cw' = [cw EXCEPT ![w] = [n EXCEPT !.pc = "persist"]]
             ELSE cw' = [cw EXCEPT ![w] = [n EXCEPT !.pc = "loop",
                                                    !.queue = FrontierAfterPage(n)]]
        /\ UNCHANGED env
     \/ /\ DbMayFail
        /\ UseDbFault
        /\ InnerCatch(w, "db error")
        /\ UNCHANGED crawledPages
  /\ UNCHANGED <<crawlJob, crawlQueue, cancel, fetched, offCrawl>>

\* crawlJob.update of the running counters, then the link extraction
crawlPersist(w) ==
  LET l == cw[w] IN
  /\ l.pc = "persist"
  /\ \/ /\ crawlJob' = [crawlJob EXCEPT !.pagesFound = l.pagesFound,
                                        !.pagesCrawled = l.pagesCrawled,
                                        !.pagesFailed = l.pagesFailed]
        /\ cw' = [cw EXCEPT ![w].pc = "loop", ![w].queue = FrontierAfterPage(l)]
        /\ UNCHANGED env
     \/ /\ DbMayFail
        /\ UseDbFault
        /\ InnerCatch(w, "db error")
        /\ UNCHANGED crawlJob
  /\ UNCHANGED <<crawledPages, crawlQueue, cancel, fetched, offCrawl>>

\* crawledPage.create (FAILED) of the inner catch block
crawlRecordFailed(w) ==
  LET l == cw[w] IN
  /\ l.pc = "recordFailed"
  /\ \/ /\ crawledPages' = Append(crawledPages,
                                  NewPage(l.normalizedUrl, FAILED, l.errorMessage, <<>>))
        /\ cw' = [cw EXCEPT ![w].pc = "loop"]
        /\ UNCHANGED env
     \/ /\ DbMayFail
        /\ UseDbFault
        /\ cw' = [cw EXCEPT ![w].pc = "markFailed", ![w].errorMessage = "db error"]
        /\ UNCHANGED crawledPages
  /\ UNCHANGED <<crawlJob, crawlQueue, cancel, fetched, offCrawl>>

\* the update after the loop: status COMPLETED with the final counters
crawlFinish(w) ==
  LET l == cw[w] IN
  /\ l.pc = "finish"
  /\ \/ /\ crawlJob' = [crawlJob EXCEPT !.status = COMPLETED,
                                        !.pagesFound = l.pagesFound,
                                        !.pagesCrawled = l.pagesCrawled,
                                        !.pagesFailed = l.pagesFailed,
                                        !.completedAt = TRUE]
        /\ CrawlReturn(w, FALSE)
        /\ UNCHANGED env
     \/ /\ DbMayFail
        /\ UseDbFault
        /\ cw' = [cw EXCEPT ![w].pc = "markFailed", ![w].errorMessage = "db error"]
        /\ UNCHANGED <<crawlJob, crawlQueue>>
  /\ UNCHANGED <<crawledPages, cancel, fetched, offCrawl>>

\* the outer catch block: status FAILED with the counters so far, rethrow
crawlMarkFailed(w) ==
  LET l == cw[w] IN
  /\ l.pc = "markFailed"
  /\ \/ /\ crawlJob' = [crawlJob EXCEPT !.status = FAILED,
                                        !.pagesFound = l.pagesFound,
                                        !.pagesCrawled = l.pagesCrawled,
                                        !.pagesFailed = l.pagesFailed,
                                        !.errorMessage = l.errorMessage,
                                        !.completedAt = TRUE]
        /\ UNCHANGED env
     \/ /\ DbMayFail
        /\ UseDbFault
        /\ UNCHANGED crawlJob
  /\ CrawlReturn(w, TRUE)
  /\ UNCHANGED <<crawledPages, cancel, fetched, offCrawl>>

(***************************************************************************)
(* Texts.  A text is a sequence of tokens: a token is either one of the    *)
(* whitespace characters below or a word (a maximal run of non-whitespace  *)
(* characters); two words are never adjacent.                              *)
(***************************************************************************)
Whitespace == {" ", "\n", "\t"}
IsWord(tok) == tok \notin Whitespace

\* text.split(/\s+/).filter(Boolean)
Words(text) == SelectSeq(text, IsWord)

\* words.join(' ')
RECURSIVE JoinSpace(_)
JoinSpace(words) ==
  IF Len(words) = 0 THEN <<>>
  ELSE IF Len(words) = 1 THEN <<words[1]>>
  ELSE <<words[1], " ">> \o JoinSpace(Tail(words))

Min(a, b) == IF a < b THEN a ELSE b

\* a chunker that steps a whole chunk ahead, forgetting the overlap
NextStartNoOverlap(start, chunkSize, overlap) == start + chunkSize

\* start += chunkSize - overlap
NextStart(start, chunkSize, overlap) == start + chunkSize - overlap

\* the while loop of chunkText, from word index start (0-based)
RECURSIVE ChunkLoop(_, _, _, _)
ChunkLoop(words, start, chunkSize, overlap) ==
  IF start >= Len(words)
    THEN <<>>
    ELSE LET end == Min(start + chunkSize, Len(words))
             chunk == JoinSpace(SubSeq(words, start + 1, end))
         IN  IF end >= Len(words)
               THEN <<chunk>>
               ELSE <<chunk>> \o ChunkLoop(words, NextStart(start, chunkSize, overlap),
                                           chunkSize, overlap)

\* a chunker that returns the text unsplit and unnormalised
chunkTextVerbatim(text, chunkSize, overlap) ==
  IF Len(Words(text)) = 0 THEN <<>> ELSE <<text>>

\* EmbeddingService.chunkText
chunkText(text, chunkSize, overlap) ==
  LET words == Words(text)
  IN  IF Len(words) = 0 THEN <<>> ELSE ChunkLoop(words, 0, chunkSize, overlap)

\* for (const text of texts) allChunks.push(...this.chunkText(text))
RECURSIVE AllChunks(_)
AllChunks(texts) ==
  IF texts = <<>> THEN <<>>
  ELSE chunkText(Head(texts), DefaultChunkSize, DefaultOverlap) \o AllChunks(Tail(texts))

\* `Question: ${qna.question}\nAnswer: ${qna.answer}`
CombinedText(question, answer) ==
  <<"Question:", " ">> \o question \o <<"\n", "Answer:", " ">> \o answer

(***************************************************************************)
(* Rows of the training sources and of the embeddings table                *)
(***************************************************************************)
QnaIds == {"q1", "q2"}
BotId == "bot1"
TWorkers == {"t1w", "t2w"}

PENDING == "PENDING"
TRAINED == "TRAINED"
Undefined == <<"undefined">>

\* rev counts the writes service calls made to a pair or to its vectors after
\* its creation (history, not a column)
NoQna == [state |-> "absent", question |-> <<>>, answer |-> <<>>,
          trainingStatus |-> Null, isActive |-> TRUE, rev |-> 0]
\* gen counts the TextTraining rows created so far (each gets a fresh id)
NoText == [state |-> "absent", id |-> "none", gen |-> 0, content |-> <<>>,
           trainingStatus |-> Null]

\* the vectors stored for a source
VectorsOf(table, sourceType, sourceId) ==
  {i \in 1..Len(table) :
     table[i].sourceType = sourceType /\ table[i].sourceId = sourceId}

\* DELETE FROM embeddings WHERE chatbot_id, source_type, source_id match
deleteBySource(table, chatbotId, sourceType, sourceId) ==
  LET Keep(e) == ~(e.chatbotId = chatbotId /\ e.sourceType = sourceType
                     /\ e.sourceId = sourceId)
  IN  SelectSeq(table, Keep)

\* the job options of every trainingQueue.add
TrainingJob(type, sourceId) ==
  [type |-> type, chatbotId |-> BotId, sourceId |-> sourceId,
   attempts |-> QueueAttempts, attemptsMade |-> 0, state |-> "waiting", owner |-> "none"]

(***************************************************************************)
(* The service calls.  A call is the sequence of awaited store / queue     *)
(* operations the method performs after its initial read, in program       *)
(* order; svc.steps holds the operations still to run.                     *)
(***************************************************************************)
Questions == {<<"Return", " ", "policy?">>, <<"Refund?">>}
Answers == {<<"30", " ", "days.">>}
Contents == {<<"alpha", " ", "beta">>, <<"gamma">>}
UpdateDtos == [question : Questions \cup {Undefined},
               answer : Answers \cup {Undefined},
               isActive : {"undefined", "false"}]
TextIds == <<"t1", "t2", "t3", "t4", "t5">>

\* done lists the operations of the call that have completed (history)
\* (history); pairs / created are dto.pairs and the rows created by bulkCreate,
\* jobId / ids / pages the arguments of selectPages and the pages it found,
\* k counts the trainingQueue.add calls made, enqueued lists them (history)
IdleSvc == [op |-> "none", steps |-> <<>>, done |-> <<>>, id |-> "none",
            dto |-> [question |-> Undefined, answer |-> Undefined, isActive |-> "undefined"],
            content |-> <<>>, contentChanged |-> FALSE, crashedAt |-> "none",
            pairs |-> <<>>, created |-> <<>>,
            jobId |-> "none", ids |-> <<>>, pages |-> <<>>,
            k |-> 0, enqueued |-> <<>>,
            result |-> "none"]

\* a create that returns without enqueueing
CreateStepsNoEnqueue == <<"createRow">>

\* QnaService.create: qnaPair.create, then trainingQueue.add
qnaCreateSteps == <<"createRow", "enqueue">>

\* n times trainingQueue.add: for (const x of xs) await trainingQueue.add(...)
EnqueueSteps(n) == [i \in 1..n |-> "enqueue"]

\* QnaService.bulkCreate: the $transaction of creates, then one add per row
qnaBulkCreateSteps(n) == <<"createRows">> \o EnqueueSteps(n)

\* CrawlService.selectPages after its findMany: updateMany, one add per page
selectPagesSteps(n) == <<"markSelected">> \o EnqueueSteps(n)

\* an update that retrains whatever the dto holds
ContentChangedAlways(dto, qna) == TRUE

\* const contentChanged = ... of QnaService.update
ContentChanged(dto, qna) ==
  \/ (dto.question # Undefined /\ dto.question # qna.question)
  \/ (dto.answer # Undefined /\ dto.answer # qna.answer)

\* QnaService.update after its findUnique: qnaPair.update, then, when the
\* content changed, deleteBySource and trainingQueue.add
qnaUpdateSteps(contentChanged) ==
  <<"updateRow">> \o (IF contentChanged THEN <<"deleteVectors", "enqueue">> ELSE <<>>)

\* a delete that removes the record before the vectors
DeleteStepsRowFirst == <<"deleteRow", "deleteVectors">>

\* QnaService.delete after its findUnique: deleteBySource, then qnaPair.delete
qnaDeleteSteps == <<"deleteVectors", "deleteRow">>

\* TextTrainingService.delete after its findUnique
textDeleteSteps == <<"deleteVectors", "deleteRow">>

\* TextTrainingService.upsert after its findUnique
textUpsertSteps(existing) ==
  IF existing THEN <<"deleteVectors", "updateRow", "enqueue">>
              ELSE <<"createRow", "enqueue">>

\* the id a new QnaPair row gets (ids are never reused)
FreeQnaIds == {q \in QnaIds : qnaPairs[q].state = "absent"}
NextQnaId == IF "q1" \in FreeQnaIds THEN "q1" ELSE "q2"
\* the ids the rows of one bulkCreate transaction get, in order
FreeQnaIdSeq == SelectSeq(<<"q1", "q2">>, LAMBDA q : q \in FreeQnaIds)

CallAllowed == svc.steps = <<>> /\ env.calls > 0
UseCall == env' = [env EXCEPT !.calls = @ - 1]

\* createQna(dto)
createQna(question, answer) ==
  /\ CallAllowed
  /\ FreeQnaIds # {}
  /\ UseCall
  /\ svc' = [IdleSvc EXCEPT !.op = "createQna", !.steps = qnaCreateSteps,
                            !.dto = [question |-> question, answer |-> answer,
                                     isActive |-> "undefined"],
                            !.result = "pending"]
  /\ UNCHANGED <<qnaPairs, textTraining, embeddings, trainingQueue, tw, offTrain>>

\* updateQna(qnaId, dto): findUnique, the not-found guard, contentChanged
updateQna(qnaId, dto) ==
  /\ CallAllowed
  /\ UseCall
  /\ svc' = IF qnaPairs[qnaId].state # "present"
              THEN [IdleSvc EXCEPT !.op = "updateQna", !.id = qnaId, !.dto = dto,
                                   !.result = "NotFound"]
              ELSE [IdleSvc EXCEPT !.op = "updateQna", !.id = qnaId, !.dto = dto,
                                   !.contentChanged = ContentChanged(dto, qnaPairs[qnaId]),
                                   !.steps = qnaUpdateSteps(ContentChanged(dto, qnaPairs[qnaId])),
                                   !.result = "pending"]
  /\ UNCHANGED <<qnaPairs, textTraining, embeddings, trainingQueue, tw, offTrain>>

\* deleteQna(qnaId): findUnique and the not-found guard
deleteQna(qnaId) ==
  /\ CallAllowed
  /\ UseCall
  /\ svc' = IF qnaPairs[qnaId].state # "present"
              THEN [IdleSvc EXCEPT !.op = "deleteQna", !.id = qnaId, !.result = "NotFound"]
              ELSE [IdleSvc EXCEPT !.op = "deleteQna", !.id = qnaId,
                                   !.steps = qnaDeleteSteps, !.result = "pending"]
  /\ UNCHANGED <<qnaPairs, textTraining, embeddings, trainingQueue, tw, offTrain>>

\* upsertTextTraining(dto): findUnique by chatbot
upsertTextTraining(content) ==
  /\ CallAllowed
  /\ UseCall
  /\ svc' = [IdleSvc EXCEPT !.op = "upsertText", !.id = textTraining.id,
                            !.content = content,
                            !.steps = textUpsertSteps(textTraining.state = "present"),
                            !.result = "pending"]
  /\ UNCHANGED <<qnaPairs, textTraining, embeddings, trainingQueue, tw, offTrain>>

\* deleteTextTraining(chatbotId): findUnique and the not-found guard
deleteTextTraining ==
  /\ CallAllowed
  /\ UseCall
  /\ svc' = IF textTraining.state # "present"
              THEN [IdleSvc EXCEPT !.op = "deleteText", !.result = "NotFound"]
              ELSE [IdleSvc EXCEPT !.op = "deleteText", !.id = textTraining.id,
                                   !.steps = textDeleteSteps, !.result = "pending"]
  /\ UNCHANGED <<qnaPairs, textTraining, embeddings, trainingQueue, tw, offTrain>>

\* bulkCreate(dto): dto.pairs is a list of <<question, answer>>
BulkInputs ==
  {<<<<<<"Refund?">>, <<"30", " ", "days.">>>>>>,
   <<<<<<"Return", " ", "policy?">>, <<"30", " ", "days.">>>>,
     <<<<"Refund?">>, <<"30", " ", "days.">>>>>>}

bulkCreateQna(pairs) ==
  /\ CallAllowed
  /\ Len(FreeQnaIdSeq) >= Len(pairs)
  /\ UseCall
  /\ svc' = [IdleSvc EXCEPT !.op = "bulkCreateQna", !.pairs = pairs,
                            !.steps = qnaBulkCreateSteps(Len(pairs)),
                            !.result = "pending"]
  /\ UNCHANGED <<qnaPairs, textTraining, embeddings, trainingQueue, tw, offTrain>>

\* selectPages(jobId, selectedPageIds): an id no page has, and ids of pages
\* of the job
UnknownPageId == "pg0"
SelectInputs == {<<"pg1">>, <<"pg1", "pg2">>, <<"pg2", UnknownPageId>>}

\* selectPages: findUnique of the job and the not-found guard
selectPages(jobId, selectedPageIds) ==
  /\ CallAllowed
  /\ UseCall
  /\ svc' = IF jobId # "job1" \/ crawlJob = NoJob
              THEN [IdleSvc EXCEPT !.op = "selectPages", !.jobId = jobId,
                                   !.ids = selectedPageIds, !.result = "NotFound"]
              ELSE [IdleSvc EXCEPT !.op = "selectPages", !.jobId = jobId,
                                   !.ids = selectedPageIds, !.steps = <<"findPages">>,
                                   !.result = "pending"]
  /\ UNCHANGED <<qnaPairs, textTraining, embeddings, trainingQueue, tw, offTrain>>

IsQnaOp == svc.op \in {"createQna", "bulkCreateQna", "updateQna", "deleteQna"}
SvcSourceType == IF IsQnaOp THEN "QNA" ELSE "TEXT"

\* the type and the sourceId of the job the next trainingQueue.add adds
EnqueueType ==
  IF svc.op = "selectPages" THEN "crawl-page" ELSE IF IsQnaOp THEN "qna" ELSE "text"
EnqueueSourceId ==
  IF svc.op = "selectPages" THEN svc.pages[svc.k + 1]
  ELSE IF svc.op = "bulkCreateQna" THEN svc.created[svc.k + 1]
  ELSE svc.id

\* the call after its current step succeeded
SvcAdvance(s) ==
  [s EXCEPT !.steps = Tail(@),
            !.done = Append(@, Head(s.steps)),
            !.result = IF Len(s.steps) = 1 THEN "ok" ELSE "pending"]

\* the current step throws: the call ends with an error
SvcThrow == svc' = [svc EXCEPT !.steps = <<>>, !.result = "error"]

SvcStepIs(kind) == svc.steps # <<>> /\ Head(svc.steps) = kind

\* qnaPair.create / textTraining.create with trainingStatus PENDING
svcCreateRow ==
  /\ SvcStepIs("createRow")
  /\ \/ /\ IsQnaOp
        /\ qnaPairs' = [qnaPairs EXCEPT ![NextQnaId] =
                          [state |-> "present", question |-> svc.dto.question,
                           answer |-> svc.dto.answer, trainingStatus |-> PENDING,
                           isActive |-> TRUE, rev |-> 0]]
        /\ svc' = SvcAdvance([svc EXCEPT !.id = NextQnaId])
        /\ UNCHANGED <<env, textTraining>>
     \/ /\ ~IsQnaOp
        /\ textTraining.gen < Len(TextIds)
        /\ textTraining' = [state |-> "present", id |-> TextIds[textTraining.gen + 1],
                            gen |-> textTraining.gen + 1,
                            content |-> svc.content, trainingStatus |-> PENDING]
        /\ svc' = SvcAdvance([svc EXCEPT !.id = TextIds[textTraining.gen + 1]])
        /\ UNCHANGED <<env, qnaPairs>>
     \/ /\ DbMayFail
        /\ UseDbFault
        /\ SvcThrow
        /\ UNCHANGED <<qnaPairs, textTraining>>
  /\ UNCHANGED <<embeddings, trainingQueue, tw, offTrain>>

\* qnaPair.update({ data: updateData }) / textTraining.update
svcUpdateRow ==
  /\ SvcStepIs("updateRow")
  /\ \/ /\ IsQnaOp
        /\ qnaPairs[svc.id].state = "present"
        /\ LET old == qnaPairs[svc.id]
               d == svc.dto
           IN  qnaPairs' = [qnaPairs EXCEPT ![svc.id] =
                 [old EXCEPT
                    !.question = IF d.question # Undefined THEN d.question ELSE @,
                    !.answer = IF d.answer # Undefined THEN d.answer ELSE @,
                    !.isActive = IF d.isActive # "undefined" THEN d.isActive = "true" ELSE @,
                    !.trainingStatus = IF svc.contentChanged THEN PENDING ELSE @,
                    !.rev = @ + 1]]
        /\ svc' = SvcAdvance(svc)
        /\ UNCHANGED <<env, textTraining>>
     \/ /\ ~IsQnaOp
        /\ textTraining.state = "present"
        /\ textTraining' = [textTraining EXCEPT !.content = svc.content,
                                                !.trainingStatus = PENDING]
        /\ svc' = SvcAdvance(svc)
        /\ UNCHANGED <<env, qnaPairs>>
     \/ /\ IF IsQnaOp THEN qnaPairs[svc.id].state # "present"
                      ELSE textTraining.state # "present"
        /\ SvcThrow                                 \* record to update not found
        /\ UNCHANGED <<env, qnaPairs, textTraining>>
     \/ /\ DbMayFail
        /\ UseDbFault
        /\ SvcThrow
        /\ UNCHANGED <<qnaPairs, textTraining>>
  /\ UNCHANGED <<embeddings, trainingQueue, tw, offTrain>>

\* embeddingService.deleteBySource(chatbotId, sourceType, id)
svcDeleteVectors ==
  /\ SvcStepIs("deleteVectors")
  /\ \/ /\ embeddings' = deleteBySource(embeddings, BotId, SvcSourceType, svc.id)
        /\ svc' = SvcAdvance(svc)
        /\ qnaPairs' = IF IsQnaOp THEN [qnaPairs EXCEPT ![svc.id].rev = @ + 1]
                                  ELSE qnaPairs
        /\ UNCHANGED env
     \/ /\ DbMayFail
        /\ UseDbFault
        /\ SvcThrow
        /\ UNCHANGED <<embeddings, qnaPairs>>
  /\ UNCHANGED <<textTraining, trainingQueue, tw, offTrain>>

\* trainingQueue.add('train', { type, chatbotId, sourceId }, { attempts: 3, ... })
svcEnqueue ==
  /\ SvcStepIs("enqueue")
  /\ \/ /\ trainingQueue' = Append(trainingQueue,
                                   TrainingJob(EnqueueType, EnqueueSourceId))
        /\ svc' = SvcAdvance([svc EXCEPT
                                !.k = @ + 1,
                                !.enqueued = Append(@, TrainingJob(EnqueueType,
                                                                   EnqueueSourceId))])
        /\ UNCHANGED env
     \/ /\ DbMayFail
        /\ UseDbFault
        /\ SvcThrow
        /\ UNCHANGED trainingQueue
  /\ UNCHANGED <<qnaPairs, textTraining, embeddings, tw, offTrain>>

\* qnaPair.delete / textTraining.delete
svcDeleteRow ==
  /\ SvcStepIs("deleteRow")
  /\ \/ /\ IsQnaOp
        /\ qnaPairs[svc.id].state = "present"
        /\ qnaPairs' = [qnaPairs EXCEPT ![svc.id] = [NoQna EXCEPT !.state = "deleted"]]
        /\ svc' = SvcAdvance(svc)
        /\ UNCHANGED <<env, textTraining>>
     \/ /\ ~IsQnaOp
        /\ textTraining.state = "present"
        /\ textTraining' = [textTraining EXCEPT !.state = "deleted", !.content = <<>>,
                                                !.trainingStatus = Null]
        /\ svc' = SvcAdvance(svc)
        /\ UNCHANGED <<env, qnaPairs>>
     \/ /\ DbMayFail
        /\ UseDbFault
        /\ SvcThrow
        /\ UNCHANGED <<qnaPairs, textTraining>>
  /\ UNCHANGED <<embeddings, trainingQueue, tw, offTrain>>

\* the $transaction of bulkCreate: every pair is created, or none
svcCreateRows ==
  /\ SvcStepIs("createRows")
  /\ \/ /\ qnaPairs' =
             [q \in QnaIds |->
                IF \E i \in 1..Len(svc.pairs) : FreeQnaIdSeq[i] = q
                  THEN LET i == CHOOSE i \in 1..Len(svc.pairs) : FreeQnaIdSeq[i] = q
                       IN  [state |-> "present", question |-> svc.pairs[i][1],
                            answer |-> svc.pairs[i][2], trainingStatus |-> PENDING,
                            isActive |-> TRUE, rev |-> 0]
                  ELSE qnaPairs[q]]
        /\ svc' = SvcAdvance([svc EXCEPT
                                !.created = SubSeq(FreeQnaIdSeq, 1, Len(svc.pairs))])
        /\ UNCHANGED env
     \/ /\ DbMayFail
        /\ UseDbFault
        /\ SvcThrow
        /\ UNCHANGED qnaPairs
  /\ UNCHANGED <<textTraining, embeddings, trainingQueue, tw, offTrain>>

\* a guard that never rejects
PagesMismatchNever(pages, selectedPageIds) == FALSE

\* if (pages.length !== selectedPageIds.length)
PagesMismatch(pages, selectedPageIds) == Len(pages) # Len(selectedPageIds)

\* crawledPage.findMany({ id in selectedPageIds, jobId }) and the length guard
svcFindPages ==
  /\ SvcStepIs("findPages")
  /\ LET Hit(row) == row.jobId = svc.jobId
                       /\ \E i \in 1..Len(svc.ids) : svc.ids[i] = row.id
         found == SelectSeq(crawledPages, Hit)
         pages == [i \in 1..Len(found) |-> found[i].id]
     IN  \/ /\ PagesMismatch(pages, svc.ids)
            /\ svc' = [svc EXCEPT !.steps = <<>>, !.result = "BadRequest"]
            /\ UNCHANGED env
         \/ /\ ~PagesMismatch(pages, svc.ids)
            /\ svc' = [svc EXCEPT !.pages = pages,
                                  !.steps = selectPagesSteps(Len(pages)),
                                  !.done = Append(@, "findPages")]
            /\ UNCHANGED env
         \/ /\ DbMayFail
            /\ UseDbFault
            /\ SvcThrow
  /\ UNCHANGED <<crawlJob, crawledPages, crawlQueue, cw, cancel, fetched,
                 qnaPairs, textTraining, embeddings, trainingQueue, tw, calc, chat>>

\* crawledPage.updateMany({ where: { id in selectedPageIds }, isSelected: true })
svcMarkSelected ==
  /\ SvcStepIs("markSelected")
  /\ \/ /\ crawledPages' =
             [i \in 1..Len(crawledPages) |->
                IF \E n \in 1..Len(svc.ids) : svc.ids[n] = crawledPages[i].id
                  THEN [crawledPages[i] EXCEPT !.isSelected = TRUE]
                  ELSE crawledPages[i]]
        /\ svc' = SvcAdvance(svc)
        /\ UNCHANGED env
     \/ /\ DbMayFail
        /\ UseDbFault
        /\ SvcThrow
        /\ UNCHANGED crawledPages
  /\ UNCHANGED <<crawlJob, crawlQueue, cw, cancel, fetched,
                 qnaPairs, textTraining, embeddings, trainingQueue, tw, calc, chat>>

\* the API process dies between two awaits of a call
svcCrash ==
  /\ svc.steps # <<>>
  /\ env.crashes > 0
  /\ env' = [env EXCEPT !.crashes = @ - 1]
  /\ svc' = [svc EXCEPT !.steps = <<>>, !.result = "crashed",
                        !.crashedAt = Head(svc.steps)]
  /\ UNCHANGED <<qnaPairs, textTraining, embeddings, trainingQueue, tw, offTrain>>

(***************************************************************************)
(* The training queue and TrainingWorker.process                           *)
(***************************************************************************)
\* skipped lists the types of the jobs the worker skipped so far (history)
IdleTrainingWorker ==
  [pc |-> "idle", type |-> "none", sourceId |-> "none", texts |-> <<>>,
   allChunks |-> <<>>, i |-> 0, j |-> 0, stored |-> 0, skipped |-> {}]

RemoveAt(seq, k) == SubSeq(seq, 1, k - 1) \o SubSeq(seq, k + 1, Len(seq))

\* the queue entry worker t holds
EntryOf(t) == CHOOSE k \in 1..Len(trainingQueue) : trainingQueue[k].owner = t

\* the queue after process() of worker t returned (threw = FALSE) or threw
TrainingQueueAfter(t, threw) ==
  LET k == EntryOf(t)
      e == trainingQueue[k]
  IN  IF threw /\ e.attemptsMade + 1 < e.attempts
        THEN [trainingQueue EXCEPT ![k] = [e EXCEPT !.state = "waiting", !.owner = "none",
                                                    !.attemptsMade = @ + 1]]
        ELSE RemoveAt(trainingQueue, k)

TrainReturn(t, threw) ==
  /\ tw' = [tw EXCEPT ![t] = [IdleTrainingWorker EXCEPT !.skipped = tw[t].skipped]]
  /\ trainingQueue' = TrainingQueueAfter(t, threw)

\* a worker that treats a missing source as an error
TrainSkipThrows(t) ==
  /\ tw' = [tw EXCEPT ![t].pc = "markFailed"]
  /\ UNCHANGED trainingQueue

\* the "not found, skipping" / "has no content, skipping" return of process()
TrainSkip(t) ==
  /\ tw' = [tw EXCEPT ![t] = [IdleTrainingWorker EXCEPT
                                !.skipped = tw[t].skipped \cup {tw[t].type}]]
  /\ trainingQueue' = TrainingQueueAfter(t, FALSE)

\* a throw inside the try block of process(): on to the catch block
TrainThrow(t) == tw' = [tw EXCEPT ![t].pc = "markFailed"]

\* process(job) is handed a waiting job
trainPickup(t) ==
  /\ t \in env.tactive
  /\ tw[t].pc = "idle"
  /\ \E k \in 1..Len(trainingQueue) :
       /\ trainingQueue[k].state = "waiting"
       /\ trainingQueue' = [trainingQueue EXCEPT ![k].state = "active", ![k].owner = t]
       /\ tw' = [tw EXCEPT ![t] = [IdleTrainingWorker EXCEPT
                                     !.skipped = tw[t].skipped,
                                     !.pc = "load",
                                     !.type = trainingQueue[k].type,
                                     !.sourceId = trainingQueue[k].sourceId]]
  /\ UNCHANGED <<env, qnaPairs, textTraining, embeddings, svc, offTrain>>

\* the CrawledPage rows with the given id
PagesWithId(pageId) == {i \in 1..Len(crawledPages) : crawledPages[i].id = pageId}

\* page.storagePath of the page with the given id
StoragePathOf(pageId) == crawledPages[CHOOSE i \in PagesWithId(pageId) : TRUE].storagePath

\* the source row worker t works on is in the store
SourcePresent(t) ==
  IF tw[t].type = "qna"
    THEN qnaPairs[tw[t].sourceId].state = "present"
    ELSE IF tw[t].type = "text"
      THEN textTraining.state = "present" /\ textTraining.id = tw[t].sourceId
      ELSE PagesWithId(tw[t].sourceId) # {}

\* QnaPair and TextTraining rows have a trainingStatus, CrawledPage rows none
HasTrainingStatus(t) == tw[t].type \in {"qna", "text"}

\* SourceType.QNA / TEXT / CRAWL
SourceTypeOf(type) ==
  IF type = "qna" THEN "QNA" ELSE IF type = "text" THEN "TEXT" ELSE "CRAWL"

\* findUnique of processQna / processText / processCrawlPage and the skip
\* when the row is missing; processCrawlPage also skips a page without
\* content and goes on to storeEmbeddings without a status write
trainLoad(t) ==
  /\ tw[t].pc = "load"
  /\ \/ /\ ~SourcePresent(t)
        /\ TrainSkip(t)
        /\ UNCHANGED env
     \/ /\ SourcePresent(t)
        /\ ~HasTrainingStatus(t)
        /\ LET content == StoragePathOf(tw[t].sourceId)
               chunks == AllChunks(<<content>>)
           IN  IF content = <<>>
                 THEN TrainSkip(t)
               ELSE IF Len(chunks) = 0
                 THEN TrainReturn(t, FALSE)       \* storeEmbeddings returned 0
                 ELSE /\ tw' = [tw EXCEPT ![t].pc = "embed", ![t].texts = <<content>>,
                                          ![t].allChunks = chunks,
                                          ![t].i = 0, ![t].j = 0, ![t].stored = 0]
                      /\ UNCHANGED trainingQueue
        /\ UNCHANGED env
     \/ /\ SourcePresent(t)
        /\ HasTrainingStatus(t)
        /\ tw' = [tw EXCEPT ![t].pc = "setProcessing",
                            ![t].texts =
                               IF tw[t].type = "qna"
                                 THEN <<CombinedText(qnaPairs[tw[t].sourceId].question,
                                                     qnaPairs[tw[t].sourceId].answer)>>
                                 ELSE <<textTraining.content>>]
        /\ UNCHANGED <<env, trainingQueue>>
     \/ /\ DbMayFail
        /\ UseDbFault
        /\ TrainThrow(t)
        /\ UNCHANGED trainingQueue
  /\ UNCHANGED <<qnaPairs, textTraining, embeddings, svc, offTrain>>

\* a status write without the where clause on the id
SetTrainingStatusAll(t, status) ==
  IF tw[t].type = "qna"
    THEN /\ qnaPairs' = [q \in QnaIds |->
                           IF qnaPairs[q].state = "present"
                             THEN [qnaPairs[q] EXCEPT !.trainingStatus = status]
                             ELSE qnaPairs[q]]
         /\ UNCHANGED textTraining
    ELSE /\ textTraining' = [textTraining EXCEPT !.trainingStatus = status]
         /\ UNCHANGED qnaPairs

\* the row of worker t's source with a new training status
SetTrainingStatus(t, status) ==
  IF tw[t].type = "qna"
    THEN /\ qnaPairs' = [qnaPairs EXCEPT ![tw[t].sourceId].trainingStatus = status]
         /\ UNCHANGED textTraining
    ELSE /\ textTraining' = [textTraining EXCEPT !.trainingStatus = status]
         /\ UNCHANGED qnaPairs

\* update trainingStatus PROCESSING, then the chunking of storeEmbeddings
trainSetProcessing(t) ==
  /\ tw[t].pc = "setProcessing"
  /\ \/ /\ SourcePresent(t)
        /\ SetTrainingStatus(t, PROCESSING)
        /\ LET chunks == AllChunks(tw[t].texts)
           IN  tw' = [tw EXCEPT ![t].allChunks = chunks,
                                ![t].i = 0, ![t].j = 0, ![t].stored = 0,
                                ![t].pc = IF Len(chunks) = 0 THEN "setTrained" ELSE "embed"]
        /\ UNCHANGED env
     \/ /\ ~SourcePresent(t)                     \* record to update not found
        /\ TrainThrow(t)
        /\ UNCHANGED <<env, qnaPairs, textTraining>>
     \/ /\ DbMayFail
        /\ UseDbFault
        /\ TrainThrow(t)
        /\ UNCHANGED <<qnaPairs, textTraining>>
  /\ UNCHANGED <<embeddings, trainingQueue, svc, offTrain>>

\* const batchSize = 20
BatchSize == 20

\* a chunk index that restarts with every batch
ChunkIndexInBatch(i, j) == j

\* chunkIndex: i + j, for chunk j of the batch that starts at chunk i
ChunkIndex(i, j) == i + j

\* openai.embeddings.create for the batch that starts at chunk i
trainEmbed(t) ==
  /\ tw[t].pc = "embed"
  /\ \/ /\ tw' = [tw EXCEPT ![t].pc = "insert", ![t].j = 0]
        /\ UNCHANGED env
     \/ /\ DbMayFail
        /\ UseDbFault
        /\ TrainThrow(t)
  /\ UNCHANGED <<qnaPairs, textTraining, embeddings, trainingQueue, svc, offTrain>>

\* INSERT INTO embeddings of chunk i + j, stored++, and the loop steps
trainInsert(t) ==
  LET l == tw[t]
      k == l.i + l.j
      batchLen == Min(BatchSize, Len(l.allChunks) - l.i)
  IN
  /\ l.pc = "insert"
  /\ \/ /\ embeddings' = Append(embeddings,
                                [chatbotId |-> BotId,
                                 sourceType |-> SourceTypeOf(l.type),
                                 sourceId |-> l.sourceId,
                                 content |-> l.allChunks[k + 1],
                                 chunkIndex |-> ChunkIndex(l.i, l.j),
                                 totalChunks |-> Len(l.allChunks)])
        /\ IF l.j + 1 < batchLen \/ l.i + BatchSize < Len(l.allChunks)
                \/ HasTrainingStatus(t)
             THEN /\ tw' = [tw EXCEPT
                              ![t].stored = @ + 1,
                              ![t].j = IF l.j + 1 < batchLen THEN l.j + 1 ELSE 0,
                              ![t].i = IF l.j + 1 < batchLen THEN l.i ELSE l.i + BatchSize,
                              ![t].pc = IF l.j + 1 < batchLen THEN "insert"
                                        ELSE IF l.i + BatchSize < Len(l.allChunks)
                                          THEN "embed" ELSE "setTrained"]
                  /\ UNCHANGED trainingQueue
             ELSE TrainReturn(t, FALSE)      \* processCrawlPage returns
        /\ UNCHANGED env
     \/ /\ DbMayFail
        /\ UseDbFault
        /\ TrainThrow(t)
        /\ UNCHANGED <<embeddings, trainingQueue>>
  /\ UNCHANGED <<qnaPairs, textTraining, svc, offTrain>>

\* update trainingStatus TRAINED, process() returns
trainSetTrained(t) ==
  /\ tw[t].pc = "setTrained"
  /\ \/ /\ SourcePresent(t)
        /\ SetTrainingStatus(t, TRAINED)
        /\ TrainReturn(t, FALSE)
        /\ UNCHANGED env
     \/ /\ ~SourcePresent(t)
        /\ TrainThrow(t)
        /\ UNCHANGED <<env, qnaPairs, textTraining, trainingQueue>>
     \/ /\ DbMayFail
        /\ UseDbFault
        /\ TrainThrow(t)
        /\ UNCHANGED <<qnaPairs, textTraining, trainingQueue>>
  /\ UNCHANGED <<embeddings, svc, offTrain>>

\* the catch block: markFailed (its own errors are swallowed), then rethrow
trainMarkFailed(t) ==
  /\ tw[t].pc = "markFailed"
  /\ \/ /\ HasTrainingStatus(t)
        /\ SourcePresent(t)
        /\ SetTrainingStatus(t, FAILED)
        /\ UNCHANGED env
     \/ /\ HasTrainingStatus(t)
        /\ ~SourcePresent(t)
        /\ UNCHANGED <<env, qnaPairs, textTraining>>
     \/ /\ HasTrainingStatus(t)
        /\ DbMayFail
        /\ UseDbFault
        /\ UNCHANGED <<qnaPairs, textTraining>>
     \/ /\ ~HasTrainingStatus(t)                 \* no case for 'crawl-page'
        /\ UNCHANGED <<env, qnaPairs, textTraining>>
  /\ TrainReturn(t, TRUE)
  /\ UNCHANGED <<embeddings, svc, offTrain>>

(***************************************************************************)
(* EmbeddingService.search and RagService.retrieveContext.  Scores are     *)
(* cosine similarities in hundredths: 30 is the 0.3 of the filter.         *)
(***************************************************************************)
MaxRows == 3
MaxTopK == 2
DefaultTopK == 5
Threshold == 30

Bots == {"bot1", "bot2"}
Scores == {29, 30, 31}

\* the embeddings table as the SELECT of search sees it: row i holds the
\* chatbot it was stored under, its content (the text of chunk i) and the
\* score 1 - (embedding <=> query vector) the SELECT computes for it
ScoredTables ==
  UNION {{[i \in 1..n |-> [chatbotId |-> f[i][1], content |-> i, score |-> f[i][2]]] :
            f \in [1..n -> Bots \X Scores]} : n \in 0..MaxRows}

Queries == {<<"refund?">>, <<"\n", " ">>}

\* the topK a caller passes; DefaultTopK is what a call without topK gets
TopKs == (1..MaxTopK) \cup {DefaultTopK}

\* text.replace(/\n+/g, ' ')
RECURSIVE ReplaceNewlines(_)
ReplaceNewlines(text) ==
  IF text = <<>> THEN <<>>
  ELSE IF Head(text) # "\n" THEN <<Head(text)>> \o ReplaceNewlines(Tail(text))
  ELSE IF Len(text) > 1 /\ text[2] = "\n" THEN ReplaceNewlines(Tail(text))
  ELSE <<" ">> \o ReplaceNewlines(Tail(text))

\* String.prototype.trim
RECURSIVE Trim(_)
Trim(text) ==
  IF text = <<>> THEN <<>>
  ELSE IF Head(text) \in Whitespace THEN Trim(Tail(text))
  ELSE IF text[Len(text)] \in Whitespace THEN Trim(SubSeq(text, 1, Len(text) - 1))
  ELSE text

\* const cleaned = text.replace(/\n+/g, ' ').trim() of generateEmbedding
Cleaned(text) == Trim(ReplaceNewlines(text))

\* a WHERE clause that forgets the tenant
MatchingAnyTenant(table, chatbotId) == 1..Len(table)

\* WHERE chatbot_id = ${chatbotId}
Matching(table, chatbotId) == {i \in 1..Len(table) : table[i].chatbotId = chatbotId}

\* ORDER BY embedding <=> query LIMIT topK over the matching rows: h lists
\* the rows returned.  SQL leaves the order of rows at equal distance open.
IsRanking(table, rows, topK, h) ==
  /\ Len(h) = Min(topK, Cardinality(rows))
  /\ \A k \in 1..Len(h) : h[k] \in rows
  /\ \A k, l \in 1..Len(h) :
       k < l => h[k] # h[l] /\ table[h[k]].score >= table[h[l]].score
  /\ \A i \in rows :
       (\A k \in 1..Len(h) : h[k] # i) =>
          \A k \in 1..Len(h) : table[h[k]].score >= table[i].score

\* the row lists the SELECT of search may return
SearchOutcomes(table, chatbotId, topK) ==
  {h \in UNION {[1..n -> 1..Len(table)] : n \in 0..Len(table)} :
     IsRanking(table, Matching(table, chatbotId), topK, h)}

\* results.map((r) => ({ content, score: Number(r.score), metadata }))
SearchRows(table, h) ==
  [k \in 1..Len(h) |-> [content |-> table[h[k]].content, score |-> table[h[k]].score]]

\* a filter that lets the threshold itself through
RelevantInclusive(r) == r.score >= Threshold

\* (r) => r.score > 0.3
Relevant(r) == r.score > Threshold

\* EmbeddingService.search: generateEmbedding(query) throws on an empty
\* query or when the provider fails; then the SELECT
calcSearch(table, chatbotId, query, topK) ==
  /\ calc.op = "none"
  /\ \/ /\ Cleaned(query) # <<>>
        /\ \E h \in SearchOutcomes(table, chatbotId, topK) :
             calc' = [op |-> "search", table |-> table, chatbotId |-> chatbotId,
                      query |-> query, topK |-> topK, outcome |-> "ok",
                      hits |-> h, results |-> SearchRows(table, h)]
     \/ calc' = [op |-> "search", table |-> table, chatbotId |-> chatbotId,
                 query |-> query, topK |-> topK, outcome |-> "error",
                 hits |-> <<>>, results |-> <<>>]
  /\ UNCHANGED <<env, offCalc>>

\* RagService.retrieveContext: search, then results.filter(...)
calcRetrieveContext(table, chatbotId, query, topK) ==
  /\ calc.op = "none"
  /\ \/ /\ Cleaned(query) # <<>>
        /\ \E h \in SearchOutcomes(table, chatbotId, topK) :
             calc' = [op |-> "retrieveContext", table |-> table,
                      chatbotId |-> chatbotId, query |-> query, topK |-> topK,
                      outcome |-> "ok", hits |-> h,
                      results |-> SearchRows(table, h),
                      filtered |-> SelectSeq(SearchRows(table, h), Relevant)]
     \/ calc' = [op |-> "retrieveContext", table |-> table,
                 chatbotId |-> chatbotId, query |-> query, topK |-> topK,
                 outcome |-> "error", hits |-> <<>>, results |-> <<>>,
                 filtered |-> <<>>]
  /\ UNCHANGED <<env, offCalc>>

(***************************************************************************)
(* EmbeddingService.chunkText on its own                                   *)
(***************************************************************************)
MaxWords == 6
MaxChunkSize == 3
\* the longest pathname, in tokens, of a URL handed to normalizeUrl
MaxPathLen == 4
\* how many chunks of one chunkText call are kept in the model
MaxIterations == 8
\* how many texts one storeEmbeddings call is given (each yields a chunk)
MaxTexts == 42

WordNames == <<"w1", "w2", "w3", "w4", "w5", "w6", "w7", "w8">>
Styles == {"spaces", "lines", "ragged", "same"}

\* the whitespace between two words of a text of the given style
Sep(style) ==
  IF style = "lines" THEN <<"\n">>
  ELSE IF style = "ragged" THEN <<"\n", "\t">>
  ELSE <<" ">>

WordOf(i, style) == IF style = "same" THEN "w1" ELSE WordNames[i]

RECURSIVE TextBody(_, _, _)
TextBody(i, n, style) ==
  IF i > n THEN <<>>
  ELSE IF i = n THEN <<WordOf(i, style)>>
  ELSE <<WordOf(i, style)>> \o Sep(style) \o TextBody(i + 1, n, style)

\* a text of n words; a ragged text has leading and trailing whitespace
MkText(n, style) ==
  IF style = "ragged" THEN <<" ">> \o TextBody(1, n, style) \o <<"\n">>
                      ELSE TextBody(1, n, style)

Texts == {MkText(n, style) : n \in 0..MaxWords, style \in Styles}

\* a nullable column or an optional argument: absent, or one value
Absent == <<>>
Present(v) == <<v>>

\* x || '' on a nullable string
OrEmpty(x) == IF x = Absent THEN <<>> ELSE x[1]

\* x || undefined on a nullable string: the empty string is dropped as well
OrUndefined(x) == IF OrEmpty(x) = <<>> THEN Absent ELSE x

\* [...].join('\n') of the lines before the context block
RagPrefixHead ==
  <<"Use the following knowledge base context to answer the user's question.", "\n",
    "If the context is relevant, incorporate it into your response.", "\n",
    "If the context is not relevant to the question, rely on your general knowledge.", "\n",
    "When using information from the context, be accurate and helpful.", "\n",
    "", "\n",
    "--- Knowledge Base Context ---", "\n">>

\* contexts.map((ctx, i) => `[Source ${i + 1}] ${ctx.content}`).join('\n\n')
RECURSIVE ContextBlock(_, _)
ContextBlock(contexts, i) ==
  IF i > Len(contexts) THEN <<>>
  ELSE <<"[Source ", ToString(i), "] ", contexts[i].content>>
       \o (IF i < Len(contexts) THEN <<"\n\n">> ELSE <<>>)
       \o ContextBlock(contexts, i + 1)

\* a buildAugmentedPrompt without the early return for no contexts
buildAugmentedPromptAlways(systemPrompt, contexts) ==
  LET ragPrefix == RagPrefixHead \o ContextBlock(contexts, 1)
                   \o <<"\n", "--- End Context ---", "\n", "">>
      base == OrEmpty(systemPrompt)
  IN  [augmentedPrompt |-> IF base # <<>> THEN ragPrefix \o <<"\n">> \o base
                           ELSE ragPrefix,
       contexts |-> contexts]

\* RagService.buildAugmentedPrompt
buildAugmentedPrompt(systemPrompt, contexts) ==
  IF Len(contexts) = 0
  THEN [augmentedPrompt |-> OrEmpty(systemPrompt), contexts |-> <<>>]
  ELSE LET ragPrefix == RagPrefixHead \o ContextBlock(contexts, 1)
                        \o <<"\n", "--- End Context ---", "\n", "">>
           base == OrEmpty(systemPrompt)
       IN  [augmentedPrompt |-> IF base # <<>> THEN ragPrefix \o <<"\n">> \o base
                                ELSE ragPrefix,
            contexts |-> contexts]

\* results.filter((r) => r.score > 0.3) of retrieveContext
RECURSIVE FilterRelevant(_)
FilterRelevant(results) ==
  IF results = <<>> THEN <<>>
  ELSE (IF Relevant(Head(results)) THEN <<Head(results)>> ELSE <<>>)
       \o FilterRelevant(Tail(results))

\* RagService.augment: the results a call may return (retrieveContext, then
\* buildAugmentedPrompt); a query that is empty once cleaned makes it throw
augment(table, chatbotId, query, systemPrompt, topK) ==
  IF Cleaned(query) = <<>> THEN {}
  ELSE {buildAugmentedPrompt(systemPrompt, FilterRelevant(SearchRows(table, h))) :
          h \in SearchOutcomes(table, chatbotId, topK)}

SystemPrompts == {Absent, Present(<<>>), Present(<<"Be", " ", "kind.">>)}

\* the rows of a table with the text of chunk i as their content
WithText(table) ==
  [i \in 1..Len(table) |-> [table[i] EXCEPT !.content = "chunk " \o ToString(@)]]

\* the context lists handed to buildAugmentedPrompt
ContextLists ==
  {<<>>,
   <<[content |-> "chunk 1", score |-> 31]>>,
   <<[content |-> "chunk 1", score |-> 31], [content |-> "chunk 2", score |-> 31]>>}

\* buildAugmentedPrompt(systemPrompt, contexts)
calcBuildAugmentedPrompt(systemPrompt, contexts) ==
  /\ calc.op = "none"
  /\ calc' = [op |-> "buildAugmentedPrompt", systemPrompt |-> systemPrompt,
              contexts |-> contexts,
              result |-> buildAugmentedPrompt(systemPrompt, contexts)]
  /\ UNCHANGED <<env, offCalc>>

\* RagService.augment(chatbotId, query, systemPrompt, topK): it throws when
\* generateEmbedding does (a query that is empty once cleaned)
calcAugment(table, chatbotId, query, systemPrompt, topK) ==
  /\ calc.op = "none"
  /\ \/ \E r \in augment(WithText(table), chatbotId, query, systemPrompt, topK) :
          calc' = [op |-> "augment", table |-> table, chatbotId |-> chatbotId,
                   query |-> query, systemPrompt |-> systemPrompt, topK |-> topK,
                   outcome |-> "ok", result |-> r]
     \/ /\ Cleaned(query) = <<>>
        /\ calc' = [op |-> "augment", table |-> table, chatbotId |-> chatbotId,
                    query |-> query, systemPrompt |-> systemPrompt, topK |-> topK,
                    outcome |-> "threw",
                    result |-> [augmentedPrompt |-> <<>>, contexts |-> <<>>]]
  /\ UNCHANGED <<env, offCalc>>

\* the pathnames of up to MaxPathLen tokens: "/" and the segment "p1"
UrlPaths == UNION {[1..n -> {0, 1}] : n \in 0..MaxPathLen}

\* the strings handed to normalizeUrl: absolute URLs (their pathname starts
\* with "/"), path-absolute references and strings new URL() rejects
RawUrls ==
  {MkUrl("abs", "https", "a.test", path, frag) :
     path \in {q \in UrlPaths : Len(q) > 0 /\ q[1] = 0}, frag \in {"", "x"}}
  \cup {MkUrl(kind, "", "", path, frag) :
          kind \in {"rel", "bad"}, path \in {q \in UrlPaths : Len(q) <= 2},
          frag \in {"", "x"}}

\* normalizeUrl(rawUrl), and normalizeUrl of its result
calcNormalizeUrl(rawUrl) ==
  /\ calc.op = "none"
  /\ calc' = [op |-> "normalizeUrl", rawUrl |-> rawUrl,
              once |-> normalizeUrl(rawUrl),
              twice |-> normalizeUrl(normalizeUrl(rawUrl))]
  /\ UNCHANGED <<env, offCalc>>

\* chunkText(text, chunkSize, overlap), called twice on the same arguments
calcChunkText(text, chunkSize, overlap) ==
  /\ calc.op = "none"
  /\ overlap < chunkSize
  /\ calc' = [op |-> "chunkText", text |-> text, chunkSize |-> chunkSize,
              overlap |-> overlap,
              chunks |-> chunkText(text, chunkSize, overlap),
              again |-> chunkText(text, chunkSize, overlap)]
  /\ UNCHANGED <<env, offCalc>>

(***************************************************************************)
(* EmbeddingService.chunkText, one loop iteration per step                 *)
(***************************************************************************)
\* Array.prototype.slice(start, end): a negative index counts from the end
SliceIndex(k, len) == IF k < 0 THEN (IF len + k < 0 THEN 0 ELSE len + k) ELSE Min(k, len)
Slice(seq, start, end) ==
  SubSeq(seq, SliceIndex(start, Len(seq)) + 1, SliceIndex(end, Len(seq)))

\* chunkText(text, chunkSize, overlap) is called: the split, the early
\* return for a text without words, and the locals before the loop
chunkTextCall(text, chunkSize, overlap) ==
  /\ calc.op = "none"
  /\ calc' = [op |-> "chunkTextLoop", text |-> text, chunkSize |-> chunkSize,
              overlap |-> overlap, words |-> Words(text), start |-> 0,
              chunks |-> <<>>, parity |-> 0,
              pc |-> IF Len(Words(text)) = 0 THEN "returned" ELSE "while"]
  /\ UNCHANGED <<env, offCalc>>

\* chunks.push(chunk); of a list that has grown past MaxIterations chunks
\* the model keeps the first MaxIterations
PushChunk(chunks, chunk) ==
  IF Len(chunks) < MaxIterations THEN Append(chunks, chunk) ELSE chunks

\* a start at or below -(words.length + chunkSize) stands for every smaller
\* one: from there on slice(start, end) is empty and end < words.length
StartFloor(words, chunkSize) == 0 - (Len(words) + chunkSize)
StartOf(start, words, chunkSize) ==
  IF start < StartFloor(words, chunkSize) THEN StartFloor(words, chunkSize) ELSE start

\* one evaluation of while (start < words.length) and one run of its body;
\* parity is the number of iterations made so far modulo 2 (history)
chunkTextIterate ==
  LET words == calc.words
      end == Min(calc.start + calc.chunkSize, Len(words))
      chunk == JoinSpace(Slice(words, calc.start, end))
  IN
  /\ calc.op = "chunkTextLoop"
  /\ calc.pc = "while"
  /\ IF calc.start >= Len(words)
       THEN calc' = [calc EXCEPT !.pc = "returned"]
       ELSE IF end >= Len(words)
         THEN calc' = [calc EXCEPT !.chunks = PushChunk(@, chunk),
                                   !.parity = 1 - @, !.pc = "returned"]   \* break
         ELSE calc' = [calc EXCEPT !.chunks = PushChunk(@, chunk),
                                   !.parity = 1 - @,
                                   !.start = StartOf(NextStart(calc.start, calc.chunkSize,
                                                               calc.overlap),
                                                     words, calc.chunkSize)]
  /\ UNCHANGED <<env, offCalc>>

(***************************************************************************)
(* EmbeddingService.storeEmbeddings as one call that runs to its return    *)
(***************************************************************************)
\* the vector the embedding model computes for a text
EmbeddingOf(text) == <<"embedding of">> \o text

\* response.data of openai.embeddings.create({ input: batch }): one
\* embedding per input, in the order of the inputs
embeddingsCreate(batch) == [j \in 1..Len(batch) |-> [embedding |-> EmbeddingOf(batch[j])]]

\* for (let j = 0; j < batch.length; j++) { INSERT ...; stored++ }, from j on
RECURSIVE InsertBatch(_, _, _, _, _, _, _)
InsertBatch(table, source, allChunks, i, batch, response, j) ==
  IF j >= Len(batch)
    THEN table
    ELSE InsertBatch(Append(table,
                            [chatbotId |-> source.chatbotId,
                             sourceType |-> source.sourceType,
                             sourceId |-> source.sourceId,
                             content |-> batch[j + 1],
                             embedding |-> response[j + 1].embedding,
                             chunkIndex |-> ChunkIndex(i, j),
                             totalChunks |-> Len(allChunks)]),
                     source, allChunks, i, batch, response, j + 1)

\* for (let i = 0; i < allChunks.length; i += batchSize), from i on
RECURSIVE StoreBatches(_, _, _, _)
StoreBatches(table, source, allChunks, i) ==
  IF i >= Len(allChunks)
    THEN table
    ELSE LET batch == SubSeq(allChunks, i + 1, Min(i + BatchSize, Len(allChunks)))
             response == embeddingsCreate(batch)
         IN  StoreBatches(InsertBatch(table, source, allChunks, i, batch, response, 0),
                          source, allChunks, i + BatchSize)

\* storeEmbeddings(chatbotId, sourceType, sourceId, texts) on the given
\* table: the table afterwards and the number returned
storeEmbeddings(table, source, texts) ==
  LET allChunks == AllChunks(texts)
      after == StoreBatches(table, source, allChunks, 0)
  IN  IF Len(allChunks) = 0
        THEN [table |-> table, stored |-> 0]
        ELSE [table |-> after, stored |-> Len(after) - Len(table)]

\* the sources storeEmbeddings is called for
Sources == [chatbotId : Bots, sourceType : {"QNA", "TEXT"}, sourceId : {"q1", "t1"}]

\* tables the call starts from: empty, or holding a vector of the same or of
\* another source
StoredBefore(source) ==
  {<<>>,
   <<[chatbotId |-> source.chatbotId, sourceType |-> source.sourceType,
      sourceId |-> source.sourceId, content |-> <<"old">>,
      embedding |-> EmbeddingOf(<<"old">>), chunkIndex |-> 0, totalChunks |-> 1]>>,
   <<[chatbotId |-> "bot2", sourceType |-> "CRAWL", sourceId |-> "pg1",
      content |-> <<"other">>, embedding |-> EmbeddingOf(<<"other">>),
      chunkIndex |-> 0, totalChunks |-> 1]>>}

\* m texts: text k is the word "w<k>", the first one may be two words around
\* a line break, and the text at position blank (0: none) is whitespace only
NumberedTexts(m, twoWords, blank) ==
  [k \in 1..m |->
     IF k = blank THEN <<" ", "\n">>
     ELSE IF k = 1 /\ twoWords THEN <<"w1", "\n", "more">>
     ELSE <<"w" \o ToString(k)>>]

TextLists ==
  {NumberedTexts(m, twoWords, blank) :
     m \in 0..MaxTexts, twoWords \in BOOLEAN, blank \in {0, 1, 2}}

calcStoreEmbeddings(table, source, texts) ==
  /\ calc.op = "none"
  /\ calc' = [op |-> "storeEmbeddings", source |-> source, texts |-> texts,
              before |-> table,
              after |-> storeEmbeddings(table, source, texts).table,
              result |-> storeEmbeddings(table, source, texts).stored]
  /\ UNCHANGED <<env, offCalc>>

(***************************************************************************)
(* Specifications                                                          *)
(***************************************************************************)
InitStores ==
  /\ crawlJob = NoJob
  /\ crawledPages = <<>>
  /\ crawlQueue = [state |-> "none", attemptsMade |-> 0, owner |-> "none"]
  /\ cw = [w \in Workers |-> IdleCrawlWorker]
  /\ cancel = [pc |-> "idle", read |-> "NONE", result |-> "none", at |-> 0, was |-> "NONE"]
  /\ fetched = <<>>
  /\ qnaPairs = [q \in QnaIds |-> NoQna]
  /\ textTraining = NoText
  /\ embeddings = <<>>
  /\ trainingQueue = <<>>
  /\ tw = [t \in TWorkers |-> IdleTrainingWorker]
  /\ svc = IdleSvc
  /\ calc = [op |-> "none"]

InitCommon ==
  /\ InitStores
  /\ chat = [pc |-> "idle"]

\* the crawler: one job, one worker, cancellation, store faults, retries
NoFaults == [kind |-> "none", fetchFaults |-> 0, dbFaults |-> 0, stalls |-> 0,
             calls |-> 0, crashes |-> 0, active |-> {}, tactive |-> {}]

\* one kind of fault per environment
CrawlEnvs ==
  {[NoFaults EXCEPT !.kind = "fetch", !.active = {"w1"}, !.fetchFaults = MaxFetchFaults],
   [NoFaults EXCEPT !.kind = "db", !.active = {"w1"}, !.dbFaults = MaxDbFaults],
   [NoFaults EXCEPT !.kind = "stall", !.active = {"w1"}, !.stalls = MaxStalls]}

Init ==
  /\ InitCommon
  /\ env \in CrawlEnvs

NextCrawl ==
  \/ \E in \in JobInputs : startCrawl(in[1], in[2])
  \/ \E j \in JobIds : cancelJobRead(j)
  \/ cancelJobWrite
  \/ crawlStall
  \/ \E w \in Workers :
       \/ crawlPickup(w)
       \/ crawlRead(w)
       \/ crawlSetProcessing(w)
       \/ crawlLoop(w)
       \/ crawlFetch(w)
       \/ crawlStorePage(w)
       \/ crawlPersist(w)
       \/ crawlRecordFailed(w)
       \/ crawlFinish(w)
       \/ crawlMarkFailed(w)

Next == NextCrawl

Spec == Init /\ [][Next]_vars

\* processCrawlJob once CrawlWorker.process has called it: any of its steps
processCrawlJob(w) ==
  \/ crawlRead(w)
  \/ crawlSetProcessing(w)
  \/ crawlLoop(w)
  \/ crawlFetch(w)
  \/ crawlStorePage(w)
  \/ crawlPersist(w)
  \/ crawlRecordFailed(w)
  \/ crawlFinish(w)
  \/ crawlMarkFailed(w)

\* the crawler with a worker that keeps running: every await of a started
\* execution returns or throws (each fetch has a timeout), so its next step
\* is eventually taken
SpecLive == Init /\ [][Next]_vars /\ \A w \in Workers : WF_vars(processCrawlJob(w))

\* one job without limit or depth bound, one execution, cancellation at any
\* moment, fetches that fail or return a page that is skipped
InitCancel ==
  /\ InitCommon
  /\ env = [NoFaults EXCEPT !.kind = "cancel", !.active = {"w1"},
                            !.fetchFaults = MaxFetchFaults]

NextCancel ==
  \/ startCrawl(-1, 0)
  \/ cancelJobRead("job1")
  \/ cancelJobWrite
  \/ \E w \in Workers :
       \/ crawlPickup(w)
       \/ crawlRead(w)
       \/ crawlSetProcessing(w)
       \/ crawlLoop(w)
       \/ crawlFetch(w)
       \/ crawlStorePage(w)
       \/ crawlPersist(w)
       \/ crawlRecordFailed(w)
       \/ crawlFinish(w)

SpecCancel == InitCancel /\ [][NextCancel]_vars

\* one job of up to PersistEvery pages, two workers: the queue redelivers the
\* job while its first execution is still running
InitTwo ==
  /\ InitCommon
  /\ env = [NoFaults EXCEPT !.kind = "two", !.active = {"w1", "w2"},
                            !.stalls = MaxStalls]

NextTwo ==
  \/ startCrawl(-1, PersistEvery)
  \/ crawlStall
  \/ \E w \in Workers :
       \/ crawlPickup(w)
       \/ crawlRead(w)
       \/ crawlSetProcessing(w)
       \/ crawlLoop(w)
       \/ crawlFetch(w)
       \/ crawlStorePage(w)
       \/ crawlPersist(w)
       \/ crawlFinish(w)

SpecTwo == InitTwo /\ [][NextTwo]_vars

\* the training pipeline: service calls, one training worker, store faults
\* or a crash of the API process
TrainEnvs ==
  {[NoFaults EXCEPT !.kind = "db", !.tactive = {"t1w"}, !.calls = MaxCalls,
                    !.dbFaults = MaxDbFaults],
   [NoFaults EXCEPT !.kind = "crash", !.tactive = {"t1w"}, !.calls = MaxCalls,
                    !.crashes = MaxCrashes]}

InitTrain ==
  /\ InitCommon
  /\ env \in TrainEnvs

NextTrain ==
  \/ \E q \in Questions, a \in Answers : createQna(q, a)
  \/ \E id \in QnaIds, dto \in UpdateDtos : updateQna(id, dto)
  \/ \E id \in QnaIds : deleteQna(id)
  \/ \E c \in Contents : upsertTextTraining(c)
  \/ deleteTextTraining
  \/ svcCreateRow
  \/ svcUpdateRow
  \/ svcDeleteVectors
  \/ svcEnqueue
  \/ svcDeleteRow
  \/ svcCrash
  \/ \E t \in TWorkers :
       \/ trainPickup(t)
       \/ trainLoad(t)
       \/ trainSetProcessing(t)
       \/ trainEmbed(t)
       \/ trainInsert(t)
       \/ trainSetTrained(t)
       \/ trainMarkFailed(t)

SpecTrain == InitTrain /\ [][NextTrain]_vars

\* one source is created and its training job runs through its attempts
\* while the store or the provider fails up to MaxRetryFaults times
InitRetry ==
  /\ InitCommon
  /\ env = [NoFaults EXCEPT !.kind = "retry", !.tactive = {"t1w"}, !.calls = 1,
                            !.dbFaults = MaxRetryFaults]

NextRetry ==
  \/ \E q \in Questions, a \in Answers : createQna(q, a)
  \/ \E c \in Contents : upsertTextTraining(c)
  \/ svcCreateRow
  \/ svcEnqueue
  \/ \E t \in TWorkers :
       \/ trainPickup(t)
       \/ trainLoad(t)
       \/ trainSetProcessing(t)
       \/ trainEmbed(t)
       \/ trainInsert(t)
       \/ trainSetTrained(t)
       \/ trainMarkFailed(t)

SpecRetry == InitRetry /\ [][NextRetry]_vars

\* one source is created and enqueued; the store or the provider then fails
\* up to MaxOutageFaults times while the job runs through its attempts
InitOutage ==
  /\ InitCommon
  /\ env = [NoFaults EXCEPT !.kind = "outage", !.tactive = {"t1w"}, !.calls = 1,
                            !.dbFaults = MaxOutageFaults]

NextOutage ==
  \/ createQna(<<"Refund?">>, <<"30", " ", "days.">>)
  \/ upsertTextTraining(<<"alpha", " ", "beta">>)
  \/ svcCreateRow
  \/ svcEnqueue
  \/ \E t \in TWorkers :
       \/ trainPickup(t)
       \/ trainLoad(t)
       \/ trainSetProcessing(t)
       \/ trainEmbed(t)
       \/ trainInsert(t)
       \/ trainSetTrained(t)
       \/ trainMarkFailed(t)

SpecOutage == InitOutage /\ [][NextOutage]_vars

\* sources with different keys are created one after the other and their
\* training jobs are processed by two workers at once, without failures or
\* with store failures
PairEnvs ==
  {[NoFaults EXCEPT !.kind = "pair", !.tactive = {"t1w", "t2w"}, !.calls = MaxPairCalls],
   [NoFaults EXCEPT !.kind = "pair-db", !.tactive = {"t1w", "t2w"}, !.calls = MaxPairCalls,
                    !.dbFaults = MaxDbFaults]}

InitPair ==
  /\ InitCommon
  /\ env \in PairEnvs

NextPair ==
  \/ \E q \in Questions, a \in Answers : createQna(q, a)
  \/ \E c \in Contents : textTraining.state = "absent" /\ upsertTextTraining(c)
  \/ svcCreateRow
  \/ svcEnqueue
  \/ \E t \in TWorkers :
       \/ trainPickup(t)
       \/ trainLoad(t)
       \/ trainSetProcessing(t)
       \/ trainEmbed(t)
       \/ trainInsert(t)
       \/ trainSetTrained(t)
       \/ trainMarkFailed(t)

SpecPair == InitPair /\ [][NextPair]_vars

\* page selection and source creation: either a crawl whose pages are then
\* selected for training (one call, fetch or store failures), or the calls
\* that create and delete sources (no crawl worker, store failures)
SelectEnvs ==
  {[NoFaults EXCEPT !.kind = "pages-fetch", !.active = {"w1"}, !.tactive = {"t1w"},
                    !.calls = 1, !.fetchFaults = MaxFetchFaults],
   [NoFaults EXCEPT !.kind = "pages-db", !.active = {"w1"}, !.tactive = {"t1w"},
                    !.calls = 1, !.dbFaults = MaxDbFaults],
   [NoFaults EXCEPT !.kind = "sources", !.tactive = {"t1w"},
                    !.calls = MaxCalls, !.dbFaults = MaxDbFaults]}

InitSelect ==
  /\ InitCommon
  /\ env \in SelectEnvs

NextSelect ==
  \/ env.active # {} /\ startCrawl(1, 3)
  \/ \E w \in Workers :
       \/ crawlPickup(w)
       \/ crawlRead(w)
       \/ crawlSetProcessing(w)
       \/ crawlLoop(w)
       \/ crawlFetch(w)
       \/ crawlStorePage(w)
       \/ crawlRecordFailed(w)
       \/ crawlFinish(w)
       \/ crawlMarkFailed(w)
  \/ \E ids \in SelectInputs : selectPages("job1", ids)
  \/ selectPages("job2", <<"pg1">>)
  \/ createQna(<<"Refund?">>, <<"30", " ", "days.">>)
  \/ \E pairs \in BulkInputs : bulkCreateQna(pairs)
  \/ \E id \in QnaIds : deleteQna(id)
  \/ upsertTextTraining(<<"alpha", " ", "beta">>)
  \/ deleteTextTraining
  \/ svcFindPages
  \/ svcMarkSelected
  \/ svcCreateRow
  \/ svcCreateRows
  \/ svcUpdateRow
  \/ svcDeleteVectors
  \/ svcEnqueue
  \/ svcDeleteRow
  \/ \E t \in TWorkers :
       \/ trainPickup(t)
       \/ trainLoad(t)
       \/ trainSetProcessing(t)
       \/ trainEmbed(t)
       \/ trainInsert(t)
       \/ trainSetTrained(t)
       \/ trainMarkFailed(t)

SpecSelect == InitSelect /\ [][NextSelect]_vars

\* the pure functions, one evaluation per behaviour
InitCalc ==
  /\ InitCommon
  /\ env = [NoFaults EXCEPT !.kind = "calc"]

NextCalc ==
  /\ calc.op = "none"
  /\ \/ \E table \in ScoredTables, b \in Bots, q \in Queries, k \in TopKs :
          calcSearch(table, b, q, k)
     \/ \E table \in ScoredTables, b \in Bots, q \in Queries, k \in TopKs :
          calcRetrieveContext(table, b, q, k)
     \/ \E text \in Texts, c \in 1..MaxChunkSize, o \in 0..MaxChunkSize :
          calcChunkText(text, c, o)
     \/ \E rawUrl \in RawUrls : calcNormalizeUrl(rawUrl)
     \/ \E systemPrompt \in SystemPrompts, contexts \in ContextLists :
          calcBuildAugmentedPrompt(systemPrompt, contexts)
     \/ \E table \in ScoredTables, b \in Bots, q \in Queries,
           systemPrompt \in SystemPrompts :
          calcAugment(table, b, q, systemPrompt, DefaultTopK)
     \/ \E source \in {s \in Sources : s.chatbotId = "bot1"}, texts \in TextLists :
          \E table \in StoredBefore(source) : calcStoreEmbeddings(table, source, texts)

SpecCalc == InitCalc /\ [][NextCalc]_vars

\* one call of chunkText followed through its loop; a call that has started
\* keeps running
InitChunk ==
  /\ InitCommon
  /\ env = [NoFaults EXCEPT !.kind = "chunk"]

NextChunk ==
  \/ \E text \in Texts, c \in 1..MaxChunkSize, o \in 0..(MaxChunkSize + 1) :
       chunkTextCall(text, c, o)
  \/ chunkTextIterate

SpecChunk == InitChunk /\ [][NextChunk]_vars /\ WF_vars(chunkTextIterate)

(***************************************************************************)
(* The chat turn: AiController.chat, with the conversation store, the      *)
(* rate-limit counters and the retrieval pipeline of RagService            *)
(***************************************************************************)
\* the caller of every chat turn, and the owner of another conversation
UserId == "u1"
OrgId == "org1"
OtherUser == "u2"

\* the embeddings table at chat time, with the score of each row against
\* the user's message
ChatKnowledge ==
  {<<>>,
   <<[chatbotId |-> "bot1", content |-> "Refunds within 30 days.", score |-> 31],
     [chatbotId |-> "bot2", content |-> "Open 9 to 5.", score |-> 31]>>}

\* the Chatbot rows: bot1 belongs to the caller's organisation, bot2 does not
ChatbotRow(id, orgId, systemPrompt, rateLimitEnabled, rateLimitMessages) ==
  [id |-> id, orgId |-> orgId, systemPrompt |-> systemPrompt,
   aiModel |-> "gemini-2.5-flash", temperature |-> Absent,
   rateLimitEnabled |-> rateLimitEnabled, rateLimitMessages |-> rateLimitMessages]

NoChatbot == [id |-> "none"]

\* a conversation of another user on bot1
ForeignConversation ==
  [id |-> "c9", chatbotId |-> "bot1", userId |-> OtherUser,
   title |-> <<"New Conversation">>, messages |-> <<>>]

ChatContents == {<<"Refund?">>}
ConversationIds == {Absent, Present("c1"), Present("c9"), Present("c0")}

\* the reply of the provider, as the chunks of result.textStream
ReplyChunks == <<"30", " days.">>

IdleChat ==
  [pc |-> "idle", knowledge |-> <<>>, chatbots |-> {}, counts |-> [b \in Bots |-> 0],
   expiring |-> {}, conversations |-> <<>>, dto |-> [chatbotId |-> "none"],
   chatbot |-> NoChatbot, count |-> 0, conversationId |-> "none",
   isNewConversation |-> FALSE, aiMessages |-> <<>>, fullContent |-> <<>>,
   sent |-> 0, calls |-> <<>>, events |-> <<>>, response |-> "none"]

\* what the chat actions leave alone
offChat == <<crawlJob, crawledPages, crawlQueue, cw, cancel, fetched,
             qnaPairs, textTraining, embeddings, trainingQueue, tw, svc, calc>>

\* an exception that leaves chat() before the SSE headers: the HTTP status
ChatThrow(status) == [chat EXCEPT !.pc = "idle", !.response = status]

\* the catch block of chat(): the error event, then res.end()
ChatCatch(c) ==
  [c EXCEPT !.pc = "idle", !.response = "error-event",
            !.events = Append(@, [event |-> "error", isComplete |-> TRUE])]

\* POST /ai/chat
chatStart(dto) ==
  /\ chat.pc = "idle"
  /\ env.calls > 0
  /\ env' = [env EXCEPT !.calls = @ - 1]
  /\ chat' = [chat EXCEPT !.pc = "validate", !.dto = dto, !.chatbot = NoChatbot,
                          !.count = 0, !.conversationId = "none",
                          !.isNewConversation = FALSE, !.aiMessages = <<>>,
                          !.fullContent = <<>>, !.sent = 0, !.calls = <<>>,
                          !.events = <<>>, !.response = "none"]
  /\ UNCHANGED offChat

\* where chat() continues after the rate limit: let conversationId = dto.conversationId
AfterRateLimit(c) ==
  IF c.dto.conversationId = Absent
  THEN [c EXCEPT !.pc = "createConversation"]
  ELSE [c EXCEPT !.pc = "addUserMessage", !.conversationId = c.dto.conversationId[1]]

\* chatbotService.validateOwnership(dto.chatbotId, orgId)
chatValidateOwnership ==
  /\ chat.pc = "validate"
  /\ \/ /\ env.dbFaults > 0
        /\ env' = [env EXCEPT !.dbFaults = @ - 1]
        /\ chat' = ChatThrow("500")
     \/ /\ UNCHANGED env
        /\ LET found == {b \in chat.chatbots : b.id = chat.dto.chatbotId /\ b.orgId = OrgId}
           IN  IF found = {} THEN chat' = ChatThrow("403")
               ELSE LET chatbot == CHOOSE b \in found : TRUE
                        c == [chat EXCEPT !.chatbot = chatbot]
                    IN  chat' = IF chatbot.rateLimitEnabled
                                THEN [c EXCEPT !.pc = "incr"]
                                ELSE AfterRateLimit(c)
  /\ UNCHANGED offChat

DefaultRateLimitMessages == 20

\* count > maxMessages of checkRateLimit, then back in chat()
RateLimitCheck(c) ==
  LET maxMessages == IF c.chatbot.rateLimitMessages = Absent
                     THEN DefaultRateLimitMessages
                     ELSE c.chatbot.rateLimitMessages[1]
  IN  IF c.count > maxMessages
      THEN [c EXCEPT !.pc = "idle", !.response = "403"]
      ELSE AfterRateLimit(c)

\* const count = await this.cacheService.incr(key)
chatIncr ==
  /\ chat.pc = "incr"
  /\ LET count == chat.counts[chat.chatbot.id] + 1
         c == [chat EXCEPT !.counts[chat.chatbot.id] = count, !.count = count]
     IN  chat' = IF count = 1 THEN [c EXCEPT !.pc = "expire"] ELSE RateLimitCheck(c)
  /\ UNCHANGED <<env, offChat>>

\* await this.cacheService.expire(key, windowMinutes * 60)
chatExpire ==
  /\ chat.pc = "expire"
  /\ chat' = RateLimitCheck([chat EXCEPT !.expiring = @ \cup {chat.chatbot.id}])
  /\ UNCHANGED <<env, offChat>>

\* conversationService.create(userId, orgId, { chatbotId }): the chatbot
\* lookup, then conversation.create
chatCreateConversation ==
  /\ chat.pc = "createConversation"
  /\ \/ /\ env.dbFaults > 0
        /\ env' = [env EXCEPT !.dbFaults = @ - 1]
        /\ chat' = ChatThrow("500")
     \/ /\ UNCHANGED env
        /\ LET id == "c" \o ToString(Len(chat.conversations))
               row == [id |-> id, chatbotId |-> chat.dto.chatbotId, userId |-> UserId,
                       title |-> <<"New Conversation">>, messages |-> <<>>]
           IN  chat' = [chat EXCEPT !.conversations = Append(@, row),
                                    !.conversationId = id,
                                    !.isNewConversation = TRUE,
                                    !.pc = "addUserMessage"]
  /\ UNCHANGED offChat

\* the position of the conversation with this id, 0 when there is none
ConversationAt(conversations, id) ==
  IF \E i \in 1..Len(conversations) : conversations[i].id = id
  THEN CHOOSE i \in 1..Len(conversations) : conversations[i].id = id
  ELSE 0

\* conversationService.addMessage: message.create, then conversation.update
\* of updatedAt; the create violates the foreign key when there is no such
\* conversation
AddMessage(c, content, role, senderId) ==
  LET i == ConversationAt(c.conversations, c.conversationId)
  IN  [c EXCEPT !.conversations[i].messages =
                   Append(@, [role |-> role, content |-> content, senderId |-> senderId])]

\* await this.conversationService.addMessage(conversationId, dto.content, USER, userId)
chatAddUserMessage ==
  /\ chat.pc = "addUserMessage"
  /\ LET known == ConversationAt(chat.conversations, chat.conversationId) # 0
         added == AddMessage(chat, chat.dto.content, "USER", Present(UserId))
     IN  \/ /\ env.dbFaults > 0
            /\ env' = [env EXCEPT !.dbFaults = @ - 1]
            /\ \/ chat' = ChatThrow("500")
               \/ /\ known
                  /\ chat' = [added EXCEPT !.pc = "idle", !.response = "500"]
         \/ /\ UNCHANGED env
            /\ chat' = IF ~known THEN ChatThrow("500")
                       ELSE [added EXCEPT !.pc = IF chat.isNewConversation
                                                 THEN "autoTitle" ELSE "getMessages"]
  /\ UNCHANGED offChat

MaxTitle == 60

\* firstMessage.length > 60 ? firstMessage.substring(0, 57) + '...' : firstMessage
AutoTitle(firstMessage) ==
  IF Len(firstMessage) > MaxTitle
  THEN SubSeq(firstMessage, 1, MaxTitle - 3) \o <<"...">>
  ELSE firstMessage

\* await this.conversationService.autoTitle(conversationId, dto.content)
chatAutoTitle ==
  /\ chat.pc = "autoTitle"
  /\ \/ /\ env.dbFaults > 0
        /\ env' = [env EXCEPT !.dbFaults = @ - 1]
        /\ chat' = ChatThrow("500")
     \/ /\ UNCHANGED env
        /\ LET i == ConversationAt(chat.conversations, chat.conversationId)
           IN  chat' = [chat EXCEPT !.conversations[i].title = AutoTitle(chat.dto.content),
                                    !.pc = "getMessages"]
  /\ UNCHANGED offChat

\* messages.map((m) => ({ role: m.role === USER ? 'user' : 'assistant', content }))
AiMessages(messages) ==
  [k \in 1..Len(messages) |->
     [role |-> IF messages[k].role = "USER" THEN "user" ELSE "assistant",
      content |-> messages[k].content]]

\* conversationService.getMessages(conversationId, userId), then the SSE headers
chatGetMessages ==
  /\ chat.pc = "getMessages"
  /\ \/ /\ env.dbFaults > 0
        /\ env' = [env EXCEPT !.dbFaults = @ - 1]
        /\ chat' = ChatThrow("500")
     \/ /\ UNCHANGED env
        /\ LET i == ConversationAt(chat.conversations, chat.conversationId)
           IN  IF i = 0 \/ chat.conversations[i].userId # UserId
               THEN chat' = ChatThrow("404")
               ELSE chat' = [chat EXCEPT
                               !.aiMessages = AiMessages(chat.conversations[i].messages),
                               !.events = <<[event |-> "headers",
                                             conversationId |-> chat.conversationId]>>,
                               !.pc = "streamChat"]
  /\ UNCHANGED offChat

\* systemPrompt: chatbot.systemPrompt ?? undefined
ChatSystemPrompt(c) == c.chatbot.systemPrompt

\* aiService.streamChat({ modelName, systemPrompt, messages, temperature }):
\* streamText({ model, system: params.systemPrompt || undefined, messages, ... })
chatStreamChat ==
  /\ chat.pc = "streamChat"
  /\ chat' = [chat EXCEPT
                !.calls = Append(@, [fn |-> "streamText",
                                     model |-> chat.chatbot.aiModel,
                                     system |-> OrUndefined(ChatSystemPrompt(chat)),
                                     messages |-> chat.aiMessages]),
                !.pc = "stream"]
  /\ UNCHANGED <<env, offChat>>

\* for await (const chunk of result.textStream): one chunk, or the provider fails
chatStream ==
  /\ chat.pc = "stream"
  /\ \/ /\ env.fetchFaults > 0
        /\ env' = [env EXCEPT !.fetchFaults = @ - 1]
        /\ chat' = ChatCatch(chat)
     \/ /\ UNCHANGED env
        /\ LET chunk == ReplyChunks[chat.sent + 1]
           IN  chat' = [chat EXCEPT
                          !.fullContent = Append(@, chunk),
                          !.events = Append(@, [event |-> "content", content |-> chunk]),
                          !.sent = @ + 1,
                          !.pc = IF chat.sent + 1 = Len(ReplyChunks)
                                 THEN "saveAssistant" ELSE "stream"]
  /\ UNCHANGED offChat

\* addMessage(conversationId, fullContent, ASSISTANT, ...), the completion
\* event and res.end()
chatSaveAssistant ==
  /\ chat.pc = "saveAssistant"
  /\ LET added == AddMessage(chat, chat.fullContent, "ASSISTANT", Absent)
     IN  \/ /\ env.dbFaults > 0
            /\ env' = [env EXCEPT !.dbFaults = @ - 1]
            /\ \/ chat' = ChatCatch(chat)
               \/ chat' = ChatCatch(added)
         \/ /\ UNCHANGED env
            /\ chat' = [added EXCEPT
                          !.events = Append(@, [event |-> "complete", isComplete |-> TRUE,
                                                conversationId |-> chat.conversationId]),
                          !.response = "complete",
                          !.pc = "idle"]
  /\ UNCHANGED offChat

\* one kind of fault per environment
ChatEnvs ==
  {[NoFaults EXCEPT !.kind = "chat-store", !.calls = MaxCalls, !.dbFaults = MaxDbFaults],
   [NoFaults EXCEPT !.kind = "chat-provider", !.calls = MaxCalls,
                    !.fetchFaults = MaxFetchFaults]}

\* chat turns of one user, one after the other
InitChat ==
  /\ InitStores
  /\ env \in ChatEnvs
  /\ \E knowledge \in ChatKnowledge, systemPrompt \in SystemPrompts,
        rateLimitEnabled \in BOOLEAN, rateLimitMessages \in {Absent, Present(1)} :
       chat = [IdleChat EXCEPT
                 !.knowledge = knowledge,
                 !.chatbots = {ChatbotRow("bot1", OrgId, systemPrompt,
                                          rateLimitEnabled, rateLimitMessages),
                               ChatbotRow("bot2", "org2", Absent, FALSE, Absent)},
                 !.conversations = <<ForeignConversation>>]

NextChat ==
  \/ \E content \in ChatContents, conversationId \in ConversationIds, chatbotId \in Bots :
       chatStart([content |-> content, conversationId |-> conversationId,
                  chatbotId |-> chatbotId])
  \/ chatValidateOwnership
  \/ chatIncr
  \/ chatExpire
  \/ chatCreateConversation
  \/ chatAddUserMessage
  \/ chatAutoTitle
  \/ chatGetMessages
  \/ chatStreamChat
  \/ chatStream
  \/ chatSaveAssistant

SpecChat == InitChat /\ [][NextChat]_vars

(***************************************************************************)
(* Properties of the crawler                                               *)
(***************************************************************************)
\* the positions of processCrawlJob after its write of PROCESSING
TraversalPcs == {"loop", "fetch", "storePage", "persist", "recordFailed",
                 "finish", "markFailed"}
Traversing(w) == cw[w].pc \in TraversalPcs

SeqToSet(seq) == {seq[i] : i \in 1..Len(seq)}
FailedRowsOf(u) == {i \in 1..Len(crawledPages) :
                      crawledPages[i].url = u /\ crawledPages[i].status = FAILED}
RowsWithStatus(status) == {i \in 1..Len(crawledPages) : crawledPages[i].status = status}

\* C1: once a job is CANCELLED while a worker is traversing it, its stored
\* status stays CANCELLED: no step of the traversal overwrites it.
C1_CancelledIsFinal ==
  [][(crawlJob.status = CANCELLED /\ \E w \in Workers : Traversing(w))
       => crawlJob'.status = CANCELLED]_vars

\* C2: a job whose stored status is COMPLETED, FAILED or CANCELLED never
\* becomes PROCESSING again, and PROCESSING is only entered from QUEUED.
C2_NoReentry ==
  [][crawlJob'.status = PROCESSING /\ crawlJob.status # PROCESSING
       => crawlJob.status = QUEUED]_vars

\* C5: in every state of an execution pagesCrawled <= L and every fetched
\* URL was enqueued at a depth <= D (D = -1: unbounded); with D = 0 only the
\* seed is fetched and pagesFound <= 1, pagesCrawled <= 1, also as stored.
C5_CrawlBounded ==
  /\ \A w \in Workers :
       Traversing(w) => /\ cw[w].pagesCrawled <= cw[w].limit
                        /\ cw[w].limit = LimitOf(crawlJob)
  /\ crawlJob # NoJob =>
       /\ crawlJob.pagesCrawled <= LimitOf(crawlJob)
       /\ \A i \in 1..Len(fetched) : fetched[i].depth <= MaxDepthOf(crawlJob)
       /\ crawlJob.maxDepth = 0 =>
            /\ \A i \in 1..Len(fetched) :
                 fetched[i].depth = 0 /\ fetched[i].url = normalizeUrl(crawlJob.url)
            /\ \A w \in Workers :
                 Traversing(w) => /\ cw[w].pagesFound <= 1
                                  /\ cw[w].pagesCrawled <= 1
                                  /\ Len(cw[w].queue) <= 1
            /\ crawlJob.pagesFound <= 1
            /\ crawlJob.pagesCrawled <= 1

\* C5 witness: the page limit stopped a traversal whose frontier still held
\* a discovered link, the last page having been fetched at depth D
C5_Witness ==
  \E w \in Workers :
    /\ cw[w].pc = "finish"
    /\ cw[w].pagesCrawled = cw[w].limit
    /\ Len(cw[w].queue) > 0
    /\ cw[w].item.depth = cw[w].maxDepth

\* C6: a step that makes the status CANCELLED overwrites QUEUED or PROCESSING.
C6_CancelOnlyActive ==
  [][crawlJob'.status = CANCELLED /\ crawlJob.status # CANCELLED
       => crawlJob.status \in {QUEUED, PROCESSING}]_vars

\* C7: a cancelJob call that reads COMPLETED or CANCELLED ends with an
\* invalid-state error, one for an unknown id with not-found; neither
\* reaches the write, and the call changes no job, page or queue entry.
C7_RejectedCancel ==
  /\ [](/\ cancel.pc = "write" => cancel.read \in {QUEUED, PROCESSING, FAILED}
        /\ cancel.result = "BadRequest" => cancel.read \in {COMPLETED, CANCELLED}
        /\ cancel.result = "NotFound" => cancel.read = "NONE")
  /\ [][(cancel' # cancel /\ cancel'.result \in {"BadRequest", "NotFound"})
          => /\ UNCHANGED <<crawlJob, crawledPages, crawlQueue, trainingQueue>>
             /\ cancel'.pc = "idle"
             /\ cancel'.result = "BadRequest" => crawlJob.status = cancel'.read
             /\ cancel'.read \in {COMPLETED, CANCELLED} => cancel'.result = "BadRequest"]_vars

\* C7 witness: a cancel of an already cancelled job was rejected
C7_Witness ==
  /\ cancel.result = "BadRequest"
  /\ cancel.read = CANCELLED
  /\ crawlJob.status = CANCELLED
  /\ crawlJob.completedAt

\* C9: a failed fetch adds one to pagesFailed and is followed by the creation
\* of one FAILED page carrying the error message for that URL; the traversal
\* goes on, and when nothing but fetches fails the job never becomes FAILED:
\* it ends COMPLETED with pagesFailed equal to the number of FAILED pages.
C9_FetchFailureIsLocal ==
  /\ [](env.kind = "fetch" =>
          /\ crawlJob.status # FAILED
          /\ \A i \in 1..Len(crawledPages) : Cardinality(FailedRowsOf(crawledPages[i].url)) <= 1
          /\ \A i \in RowsWithStatus(FAILED) : crawledPages[i].errorMessage \in FetchErrors
          /\ \A w \in Workers :
               Traversing(w) =>
                 cw[w].pagesFailed = Cardinality(RowsWithStatus(FAILED))
                                       + (IF cw[w].pc = "recordFailed" THEN 1 ELSE 0)
          /\ crawlQueue.state = "completed" =>
               /\ crawlJob.status \in {COMPLETED, CANCELLED}
               /\ crawlJob.status = COMPLETED =>
                    crawlJob.pagesFailed = Cardinality(RowsWithStatus(FAILED)))
  /\ [][\A w \in Workers :
          /\ (cw[w].pc = "fetch" /\ cw'[w].pc \notin {"fetch", "storePage", "loop"}) =>
               /\ cw'[w].pc = "recordFailed"
               /\ cw'[w].pagesFailed = cw[w].pagesFailed + 1
               /\ UNCHANGED <<crawlJob, crawledPages>>
          /\ (cw[w].pc = "recordFailed" /\ cw'[w].pc # "recordFailed" /\ env' = env) =>
               /\ cw'[w].pc = "loop"
               /\ Len(crawledPages') = Len(crawledPages) + 1
               /\ SubSeq(crawledPages', 1, Len(crawledPages)) = crawledPages
               /\ crawledPages'[Len(crawledPages')].url = cw[w].normalizedUrl
               /\ crawledPages'[Len(crawledPages')].status = FAILED
               /\ crawledPages'[Len(crawledPages')].errorMessage = cw[w].errorMessage
               /\ UNCHANGED crawlJob]_vars

\* C9 witness: a job completed although one of its fetches failed, and pages
\* were crawled after the failure
C9_Witness ==
  /\ env.kind = "fetch"
  /\ crawlJob.status = COMPLETED
  /\ crawlJob.pagesFailed = 1
  /\ \E i, j \in 1..Len(crawledPages) :
       /\ i < j
       /\ crawledPages[i].status = FAILED
       /\ crawledPages[j].status = COMPLETED

\* C10: every frontier item and every fetched URL has scheme http or https
\* and the origin of the seed URL (links are taken only from pages of that
\* origin, and only to their own origin).
C10_SameOrigin ==
  crawlJob # NoJob =>
    /\ \A i \in 1..Len(fetched) :
         /\ fetched[i].url.scheme \in {"http", "https"}
         /\ Origin(fetched[i].url) = Origin(crawlJob.url)
    /\ \A w \in Workers : \A i \in 1..Len(cw[w].queue) :
         /\ cw[w].queue[i].url.scheme \in {"http", "https"}
         /\ Origin(cw[w].queue[i].url) = Origin(crawlJob.url)

\* C10 witness: links of a page that also links to another origin, to
\* another scheme and to mailto were enqueued, and one of them was fetched
C10_Witness ==
  \E w \in Workers :
    /\ Traversing(w)
    /\ Len(cw[w].queue) > 0
    /\ \E i \in 1..Len(fetched) : fetched[i].depth = 1

(***************************************************************************)
(* Properties of the training pipeline                                     *)
(***************************************************************************)
\* the chunk contents the current text of pair q produces
CurrentQnaChunks(q) ==
  SeqToSet(AllChunks(<<CombinedText(qnaPairs[q].question, qnaPairs[q].answer)>>))

\* C3: after an updateQna that changed the content of pair q has returned,
\* once a vector of the new content is stored, no vector of the earlier
\* content is stored (or can be returned by search) any more.
C3_NoStaleVectors ==
  \A q \in QnaIds :
    (/\ svc.op = "updateQna" /\ svc.id = q /\ svc.contentChanged
     /\ svc.result = "ok"
     /\ qnaPairs[q].state = "present") =>
      LET vs == VectorsOf(embeddings, "QNA", q)
      IN  (\E i \in vs : embeddings[i].content \in CurrentQnaChunks(q))
            => \A i \in vs : embeddings[i].content \in CurrentQnaChunks(q)

\* process() of worker t returns normally from the first attempt of the job
\* of a pair that no update or delete call has touched since its creation
FirstQnaRunSucceeds(t) ==
  /\ tw[t].pc = "setTrained"
  /\ tw'[t].pc = "idle"
  /\ tw[t].type = "qna"
  /\ trainingQueue[EntryOf(t)].attemptsMade = 0
  /\ qnaPairs[tw[t].sourceId].rev = 0

\* "Question: {q} Answer: {a}" for a question and an answer whose words are
\* separated by single spaces
SpaceJoinedQna(question, answer) ==
  <<"Question:", " ">> \o question \o <<" ", "Answer:", " ">> \o answer

DeleteTargetPresent(s, pairs, text) ==
  IF s.op = "deleteQna" THEN pairs[s.id].state = "present"
                        ELSE text.state = "present" /\ text.id = s.id

\* C8: within deleteQna and deleteTextTraining the record is deleted only
\* after deleteBySource has returned, and deleteBySource leaves no vector of
\* the source; a crash between the two leaves the record in the store and
\* stores nothing.
C8_VectorsBeforeRecord ==
  [][/\ \A q \in QnaIds :
          (qnaPairs[q].state = "present" /\ qnaPairs'[q].state # "present") =>
            /\ svc.op = "deleteQna" /\ svc.id = q
            /\ svc.done = <<"deleteVectors">>
     /\ (textTraining.state = "present" /\ textTraining'.state # "present") =>
            /\ svc.op = "deleteText" /\ svc.id = textTraining.id
            /\ svc.done = <<"deleteVectors">>
     /\ (svc.op \in {"deleteQna", "deleteText"} /\ svc.done = <<>>
           /\ svc'.done = <<"deleteVectors">>) =>
            /\ VectorsOf(embeddings', IF svc.op = "deleteQna" THEN "QNA" ELSE "TEXT",
                         svc.id) = {}
            /\ DeleteTargetPresent(svc', qnaPairs', textTraining')
     /\ (svc.op \in {"deleteQna", "deleteText"} /\ svc.steps # <<>>
           /\ svc'.result = "crashed") =>
            /\ DeleteTargetPresent(svc', qnaPairs', textTraining')
            /\ embeddings' = embeddings]_vars

\* C8 witness: a delete of a trained source crashed after its vectors were
\* deleted: the record is still there and has no vectors
C8_Witness ==
  /\ svc.op \in {"deleteQna", "deleteText"}
  /\ svc.result = "crashed"
  /\ svc.done = <<"deleteVectors">>
  /\ DeleteTargetPresent(svc, qnaPairs, textTraining)
  /\ IF svc.op = "deleteQna"
       THEN /\ qnaPairs[svc.id].trainingStatus = TRAINED
            /\ VectorsOf(embeddings, "QNA", svc.id) = {}
       ELSE /\ textTraining.trainingStatus = TRAINED
            /\ VectorsOf(embeddings, "TEXT", svc.id) = {}

(***************************************************************************)
(* Properties of retrieval and chunking                                    *)
(***************************************************************************)
\* the j-th smallest element of a set of integers
NthOf(S, j) == CHOOSE x \in S : Cardinality({y \in S : y < x}) = j - 1

\* the positions of the search results whose score is above 0.3
KeptPositions(results) == {k \in 1..Len(results) : results[k].score > 30}

TenantView(table, chatbotId) ==
  LET Own(r) == r.chatbotId = chatbotId
  IN  SelectSeq(table, Own)

\* C19: search returns at most topK results, each a vector stored under the
\* given chatbot, ordered by non-increasing score, with no score threshold;
\* the vectors of other chatbots never appear in the result and the result
\* is one the search over the chatbot's own vectors alone can give.
C19_SearchTenantScoped ==
  (calc.op = "search" /\ calc.outcome = "ok") =>
    LET view == TenantView(calc.table, calc.chatbotId)
    IN  /\ Len(calc.results) <= calc.topK
        /\ \A k \in 1..Len(calc.hits) :
             /\ calc.table[calc.hits[k]].chatbotId = calc.chatbotId
             /\ calc.results[k].content = calc.table[calc.hits[k]].content
        /\ \A k \in 1..(Len(calc.results) - 1) :
             calc.results[k].score >= calc.results[k + 1].score
        /\ Len(calc.results) = Min(calc.topK, Len(view))
        /\ \E h \in UNION {[1..n -> 1..Len(view)] : n \in 0..Len(view)} :
             /\ IsRanking(view, 1..Len(view), calc.topK, h)
             /\ calc.results = SearchRows(view, h)

\* another chatbot holds the best-scoring vector; the search returned two
\* of the chatbot's own vectors, the second one scoring 0.29
C19_Witness ==
  /\ calc.op = "search"
  /\ calc.outcome = "ok"
  /\ Len(calc.results) = 2
  /\ calc.results[2].score = 29
  /\ \E i \in 1..Len(calc.table) :
       /\ calc.table[i].chatbotId # calc.chatbotId
       /\ calc.table[i].score > calc.results[1].score

\* the words of a chunk list: the first chunk, then every later chunk
\* without its first overlap words
RECURSIVE Reassemble(_, _, _)
Reassemble(chunks, k, overlap) ==
  IF k > Len(chunks) THEN <<>>
  ELSE LET w == Words(chunks[k])
       IN  (IF k = 1 THEN w ELSE SubSeq(w, overlap + 1, Len(w)))
             \o Reassemble(chunks, k + 1, overlap)

\* C20: for 0 <= O < C, chunkText is deterministic, every word of the text
\* is in some chunk, the first chunk followed by the later chunks without
\* their first O words is the text's word sequence, and a text without
\* words gives no chunks.
C20_ChunksReproduceWords ==
  (calc.op = "chunkText" /\ 0 <= calc.overlap /\ calc.overlap < calc.chunkSize) =>
    LET words == SelectSeq(calc.text, IsWord)
    IN  /\ calc.chunks = calc.again
        /\ \A i \in 1..Len(words) :
             \E k \in 1..Len(calc.chunks) :
               \E m \in 1..Len(calc.chunks[k]) : calc.chunks[k][m] = words[i]
        /\ Reassemble(calc.chunks, 1, calc.overlap) = words
        /\ (words = <<>> => calc.chunks = <<>>)

\* a text with newlines was split into three or more overlapping chunks
C20_Witness ==
  /\ calc.op = "chunkText"
  /\ calc.overlap >= 1
  /\ Len(calc.chunks) >= 3
  /\ \E m \in 1..Len(calc.text) : calc.text[m] = "\n"
  /\ Reassemble(calc.chunks, 1, calc.overlap) = SelectSeq(calc.text, IsWord)

(***************************************************************************)
(* Properties of the training worker's error handling                      *)
(***************************************************************************)
\* the training status stored for the source of worker t's job
StoredStatusOf(t, pairs, text) ==
  IF tw[t].type = "qna" THEN pairs[tw[t].sourceId].trainingStatus
                        ELSE text.trainingStatus

\* the source row of worker t's job is in the given store
SourceIn(t, pairs, text) ==
  IF tw[t].type = "qna"
    THEN pairs[tw[t].sourceId].state = "present"
    ELSE text.state = "present" /\ text.id = tw[t].sourceId

\* C12: when processing a Q&A or text training job throws after the source
\* was loaded, the handler leaves the source's training status FAILED and
\* re-raises: the attempt is rescheduled or recorded as failed, never as
\* completed.
C12_ThrowMarksFailed ==
  [][\A t \in TWorkers :
       (tw[t].pc = "markFailed" /\ tw[t].texts # <<>> /\ tw'[t].pc = "idle") =>
         /\ SourceIn(t, qnaPairs', textTraining') =>
               StoredStatusOf(t, qnaPairs', textTraining') = FAILED
         /\ trainingQueue' = TrainingQueueAfter(t, TRUE)]_vars

\* the source of worker t's job is gone, or is a crawled page without text
SourceGone(t) ==
  LET id == tw[t].sourceId
  IN  IF tw[t].type = "qna" THEN qnaPairs[id].state # "present"
      ELSE IF tw[t].type = "text"
        THEN textTraining.state # "present" \/ textTraining.id # id
        ELSE \A i \in 1..Len(crawledPages) :
               crawledPages[i].id = id => crawledPages[i].storagePath = <<>>

\* C13: a training job whose source no longer exists when it is loaded, or
\* whose crawled page has no extracted text, ends without error and without
\* effect: no status is written, no vector is stored, and the job leaves
\* the queue instead of being retried.
C13_MissingSourceSkipped ==
  [][\A t \in TWorkers :
       (tw[t].pc = "load" /\ tw'[t] # tw[t] /\ env' = env /\ SourceGone(t)) =>
         /\ tw'[t].pc = "idle"
         /\ UNCHANGED <<qnaPairs, textTraining, crawledPages, embeddings>>
         /\ Len(trainingQueue') = Len(trainingQueue) - 1
         /\ \A k \in 1..Len(trainingQueue') : trainingQueue'[k].owner # t]_vars

\* the worker skipped the job of a failed page that was selected for
\* training, and nothing was stored for that page
C13_WitnessPage ==
  /\ "crawl-page" \in tw["t1w"].skipped
  /\ tw["t1w"].pc = "idle"
  /\ trainingQueue = <<>>
  /\ embeddings = <<>>
  /\ \E i \in 1..Len(crawledPages) :
       crawledPages[i].isSelected /\ crawledPages[i].storagePath = <<>>

\* the worker skipped the job of a Q&A pair that was deleted after the
\* job was enqueued; no vector was stored
C13_Witness ==
  /\ "qna" \in tw["t1w"].skipped
  /\ tw["t1w"].pc = "idle"
  /\ \E q \in QnaIds : qnaPairs[q].state = "deleted"
  /\ embeddings = <<>>
  /\ trainingQueue = <<>>

\* the same for a deleted text block
C13_WitnessText ==
  /\ "text" \in tw["t1w"].skipped
  /\ textTraining.state = "deleted"
  /\ embeddings = <<>>

(***************************************************************************)
(* Properties of the calls that enqueue training jobs                      *)
(***************************************************************************)
\* the sources a successful call created, replaced or selected
AffectedSources(s) ==
  IF s.op = "selectPages" THEN {s.ids[i] : i \in 1..Len(s.ids)}
  ELSE IF s.op = "bulkCreateQna"
    THEN {q \in QnaIds : \E i \in 1..Len(s.created) : s.created[i] = q}
    ELSE {s.id}

JobTypeOf(op) ==
  IF op = "selectPages" THEN "crawl-page"
  ELSE IF op = "upsertText" THEN "text" ELSE "qna"

\* C14: createQna, bulkCreateQna, upsertTextTraining and selectPages have
\* enqueued one training job {type, chatbotId, sourceId} with 3 attempts
\* per affected source when they return success, and a call whose enqueue
\* fails ends with an error, not with success.
C14_EnqueuedBeforeSuccess ==
  /\ []((svc.op \in {"createQna", "bulkCreateQna", "upsertText", "selectPages"}
          /\ svc.result = "ok") =>
          /\ Len(svc.enqueued) = Cardinality(AffectedSources(svc))
          /\ (svc.op = "bulkCreateQna" => Len(svc.created) = Len(svc.pairs))
          /\ \A src \in AffectedSources(svc) :
               \E i \in 1..Len(svc.enqueued) : svc.enqueued[i].sourceId = src
          /\ \A i \in 1..Len(svc.enqueued) :
               /\ svc.enqueued[i].type = JobTypeOf(svc.op)
               /\ svc.enqueued[i].chatbotId = BotId
               /\ svc.enqueued[i].attempts = 3
               /\ svc.enqueued[i].attemptsMade = 0)
  /\ [][(svc.steps # <<>> /\ Head(svc.steps) = "enqueue" /\ svc' # svc
           /\ trainingQueue' = trainingQueue) =>
          svc'.result = "error"]_vars

\* selectPages returned success for two pages and enqueued a job for each
C14_Witness ==
  /\ svc.op = "selectPages"
  /\ svc.result = "ok"
  /\ Len(svc.ids) = 2
  /\ {svc.enqueued[i].sourceId : i \in 1..Len(svc.enqueued)} = {"pg1", "pg2"}

\* a bulk create returned success for two pairs and enqueued a job for each
C14_WitnessBulk ==
  /\ svc.op = "bulkCreateQna"
  /\ svc.result = "ok"
  /\ Len(svc.enqueued) = 2

\* the page ids of the job's pages
PageIdsOf(jobId) ==
  {crawledPages[i].id : i \in {n \in 1..Len(crawledPages) : crawledPages[n].jobId = jobId}}

DtoDiffers(dto, row) ==
  \/ (dto.question # Undefined /\ dto.question # row.question)
  \/ (dto.answer # Undefined /\ dto.answer # row.answer)

\* a step of the running updateQna call
UpdateStep == svc.op = "updateQna" /\ svc.steps # <<>> /\ svc' # svc

\* C16: updateQna that changes only the active flag, or names a question /
\* answer equal to the stored one, deletes no vectors, enqueues no job and
\* leaves the training status as it is; updateQna that changes the
\* question or the answer sets the status to PENDING, deletes the pair's
\* vectors and enqueues exactly one training job.
C16_UpdateRetrainsOnContentChange ==
  /\ [][\A q \in QnaIds :
          (svc.steps = <<>> /\ svc'.op = "updateQna" /\ svc'.id = q /\ svc' # svc
             /\ qnaPairs[q].state = "present") =>
            /\ svc'.contentChanged = DtoDiffers(svc'.dto, qnaPairs[q])
            /\ UNCHANGED <<qnaPairs, embeddings, trainingQueue>>]_vars
  /\ [][(UpdateStep /\ ~svc.contentChanged) =>
          /\ embeddings' = embeddings
          /\ trainingQueue' = trainingQueue
          /\ qnaPairs'[svc.id].trainingStatus = qnaPairs[svc.id].trainingStatus
          /\ qnaPairs'[svc.id].question = qnaPairs[svc.id].question
          /\ qnaPairs'[svc.id].answer = qnaPairs[svc.id].answer]_vars
  /\ [][(UpdateStep /\ svc.contentChanged /\ svc'.done # svc.done) =>
          /\ Head(svc.steps) = "updateRow" =>
                /\ qnaPairs'[svc.id].trainingStatus = PENDING
                /\ embeddings' = embeddings /\ trainingQueue' = trainingQueue
          /\ Head(svc.steps) = "deleteVectors" =>
                /\ \A i \in 1..Len(embeddings') :
                     ~(embeddings'[i].sourceType = "QNA" /\ embeddings'[i].sourceId = svc.id)
                /\ trainingQueue' = trainingQueue
          /\ Head(svc.steps) = "enqueue" =>
                /\ Len(trainingQueue') = Len(trainingQueue) + 1
                /\ trainingQueue'[Len(trainingQueue')].type = "qna"
                /\ trainingQueue'[Len(trainingQueue')].sourceId = svc.id
                /\ embeddings' = embeddings]_vars
  /\ []((svc.op = "updateQna" /\ svc.result = "ok") =>
          IF svc.contentChanged
            THEN svc.done = <<"updateRow", "deleteVectors", "enqueue">>
                 /\ Len(svc.enqueued) = 1
            ELSE svc.done = <<"updateRow">> /\ svc.enqueued = <<>>)

\* an update of the active flag alone returned; the pair is still TRAINED
\* and its vector is still stored
C16_Witness ==
  /\ svc.op = "updateQna"
  /\ svc.result = "ok"
  /\ svc.dto = [question |-> Undefined, answer |-> Undefined, isActive |-> "false"]
  /\ qnaPairs[svc.id].trainingStatus = TRAINED
  /\ qnaPairs[svc.id].isActive = FALSE
  /\ \E i \in 1..Len(embeddings) : embeddings[i].sourceId = svc.id

\* an update of the question returned: the vector of the old content is
\* gone, the pair is PENDING and its new job waits
C16_WitnessChanged ==
  /\ svc.op = "updateQna"
  /\ svc.result = "ok"
  /\ svc.contentChanged
  /\ qnaPairs[svc.id].trainingStatus = PENDING
  /\ embeddings = <<>>
  /\ Len(trainingQueue) = 1
  /\ qnaPairs[svc.id].rev = 2

(***************************************************************************)
(* Properties of the crawl job's stored counters                           *)
(***************************************************************************)
ActiveStatuses == {QUEUED, PROCESSING}

\* C17: while the stored status of a crawl job is QUEUED or PROCESSING its
\* stored counters pagesFound, pagesCrawled and pagesFailed never decrease
\* from one state to the next, queue retries included.
C17_CountersMonotonic ==
  [][(crawlJob.status \in ActiveStatuses /\ crawlJob'.status \in ActiveStatuses) =>
       /\ crawlJob'.pagesFound >= crawlJob.pagesFound
       /\ crawlJob'.pagesCrawled >= crawlJob.pagesCrawled
       /\ crawlJob'.pagesFailed >= crawlJob.pagesFailed]_vars

(***************************************************************************)
(* Properties of the chat turn                                             *)
(***************************************************************************)
\* the prompts retrieval would hand to the generation call of this turn
AugmentedPrompts(c) ==
  {OrUndefined(Present(r.augmentedPrompt)) :
     r \in augment(c.knowledge, c.chatbot.id, c.dto.content,
                   c.chatbot.systemPrompt, DefaultTopK)}

\* C18: in every chat turn the generation provider is called only right
\* after a call of augment with the user's message and the chatbot's base
\* system prompt, and the generation call gets the augmented prompt.
C18_AugmentBeforeGeneration ==
  \A k \in 1..Len(chat.calls) :
     chat.calls[k].fn = "streamText" =>
       /\ k > 1
       /\ chat.calls[k - 1].fn = "augment"
       /\ chat.calls[k - 1].query = chat.dto.content
       /\ chat.calls[k - 1].systemPrompt = chat.chatbot.systemPrompt
       /\ chat.calls[k].system \in AugmentedPrompts(chat)

\* the generation call got a prompt retrieval would not have produced
BarePromptSent ==
  \E k \in 1..Len(chat.calls) :
     /\ chat.calls[k].fn = "streamText"
     /\ chat.calls[k].system \notin AugmentedPrompts(chat)

(***************************************************************************)
(* Properties of the chunk sizes and overlaps                              *)
(***************************************************************************)
\* the words of chunk k of the evaluation
ChunkWords(k) == SelectSeq(calc.chunks[k], IsWord)

\* the words of a sequence, as a set
WordSet(w) == {w[m] : m \in 1..Len(w)}

PairwiseDistinct(w) == \A m, n \in 1..Len(w) : m # n => w[m] # w[n]

\* C21: for 0 <= O < C every chunk of chunkText but the last has exactly C
\* words, the last has between 1 and C words, and consecutive chunks i, i+1
\* share exactly min(O, len(chunk i)) words: the last O words of chunk i
\* are the first O words of chunk i+1.
C21_ChunkSizesAndOverlap ==
  (calc.op = "chunkText" /\ 0 <= calc.overlap /\ calc.overlap < calc.chunkSize) =>
    LET n == Len(calc.chunks)
        C == calc.chunkSize
        O == calc.overlap
    IN  /\ \A k \in 1..(n - 1) : Len(ChunkWords(k)) = C
        /\ n >= 1 => Len(ChunkWords(n)) \in 1..C
        /\ \A k \in 1..(n - 1) :
             LET a == ChunkWords(k)
                 b == ChunkWords(k + 1)
                 shared == Min(O, Len(a))
             IN  /\ Len(b) >= shared
                 /\ SubSeq(a, Len(a) - O + 1, Len(a)) = SubSeq(b, 1, O)
                 /\ PairwiseDistinct(SelectSeq(calc.text, IsWord)) =>
                      Cardinality(WordSet(a) \cap WordSet(b)) = shared

\* three or more chunks of distinct words with an overlap, the last one short
C21_Witness ==
  /\ calc.op = "chunkText"
  /\ calc.overlap >= 1
  /\ Len(calc.chunks) >= 3
  /\ PairwiseDistinct(SelectSeq(calc.text, IsWord))
  /\ Len(ChunkWords(Len(calc.chunks))) < calc.chunkSize
  /\ Len(ChunkWords(1)) = calc.chunkSize

(***************************************************************************)
(* Properties of normalizeUrl                                              *)
(***************************************************************************)
\* C22: normalizeUrl is idempotent on every input string, and its result
\* for a URL has no fragment and no trailing slash unless the path is the
\* root path.
C22_NormalizeIdempotent ==
  calc.op = "normalizeUrl" =>
    /\ calc.twice = calc.once
    /\ CanParse(calc.rawUrl) =>
         /\ calc.once.frag = ""
         /\ EndsWithSlash(calc.once) => calc.once.path = <<0>>

(***************************************************************************)
(* Properties of the prompt augmentation                                   *)
(***************************************************************************)
\* the prompt is the base prompt as it was given (the empty text when no
\* base prompt was given) and there are no contexts
BaseUnchanged(systemPrompt, result) ==
  /\ systemPrompt # Absent => result.augmentedPrompt = systemPrompt[1]
  /\ systemPrompt = Absent => result.augmentedPrompt = <<>>
  /\ result.contexts = <<>>

\* C23: buildAugmentedPrompt with no contexts returns the base system
\* prompt unchanged and an empty contexts list; augment for a chatbot with
\* no stored vectors, or whose matches all score at most 0.3, returns the
\* base prompt unchanged and no contexts.
C23_NoContextKeepsBasePrompt ==
  /\ (calc.op = "buildAugmentedPrompt" /\ calc.contexts = <<>>) =>
       BaseUnchanged(calc.systemPrompt, calc.result)
  /\ (calc.op = "augment" /\ calc.outcome = "ok"
      /\ \A i \in 1..Len(calc.table) :
           calc.table[i].chatbotId = calc.chatbotId => calc.table[i].score <= Threshold) =>
       BaseUnchanged(calc.systemPrompt, calc.result)

\* augment returned the given base prompt for a chatbot whose stored
\* vectors all score at most 0.3, while another chatbot's vector scores more
C23_Witness ==
  /\ calc.op = "augment"
  /\ calc.outcome = "ok"
  /\ calc.systemPrompt = Present(<<"Be", " ", "kind.">>)
  /\ calc.result.augmentedPrompt = <<"Be", " ", "kind.">>
  /\ \E i \in 1..Len(calc.table) :
       calc.table[i].chatbotId = calc.chatbotId /\ calc.table[i].score = Threshold
  /\ \E i \in 1..Len(calc.table) :
       calc.table[i].chatbotId # calc.chatbotId /\ calc.table[i].score > Threshold

\* buildAugmentedPrompt was given contexts and put them before the base prompt
C23_WitnessAugmented ==
  /\ calc.op = "buildAugmentedPrompt"
  /\ Len(calc.contexts) = 2
  /\ calc.systemPrompt # Absent
  /\ Len(calc.result.augmentedPrompt) > Len(calc.systemPrompt[1])

(***************************************************************************)
(* Properties of vectors and the existence of their source                 *)
(***************************************************************************)
\* the source record of vector e is in the store
VectorSourcePresent(e, pairs, text, pages) ==
  IF e.sourceType = "QNA" THEN pairs[e.sourceId].state = "present"
  ELSE IF e.sourceType = "TEXT" THEN text.state = "present" /\ text.id = e.sourceId
  ELSE \E i \in 1..Len(pages) : pages[i].id = e.sourceId

\* no service call is under way, no training job is queued or in flight
TrainingQuiet ==
  /\ svc.steps = <<>>
  /\ trainingQueue = <<>>
  /\ \A t \in TWorkers : tw[t].pc = "idle"

\* C24: no vector is stored for a source that does not exist when it is
\* inserted, and once a delete call and the training jobs of its source
\* have finished, no vector of the deleted source is in the store.
C24_NoOrphanVectors ==
  /\ [][\A i \in 1..Len(embeddings') :
          i > Len(embeddings) =>
            VectorSourcePresent(embeddings'[i], qnaPairs', textTraining', crawledPages')]_vars
  /\ [](TrainingQuiet =>
          \A i \in 1..Len(embeddings) :
            VectorSourcePresent(embeddings[i], qnaPairs, textTraining, crawledPages))

(***************************************************************************)
(* Properties of repeated processing of one training job                   *)
(***************************************************************************)
\* the vectors of a source are one per chunk of its text, none repeated
OneVectorPerChunk(sourceType, sourceId, text) ==
  LET vs == VectorsOf(embeddings, sourceType, sourceId)
      chunks == AllChunks(<<text>>)
  IN  /\ Cardinality(vs) = Len(chunks)
      /\ \A i, j \in vs : i # j => embeddings[i].chunkIndex # embeddings[j].chunkIndex

\* C25: processing the same training job more than once (a retry after a
\* failed attempt, a redelivery) leaves the vectors of processing it once:
\* when the source is TRAINED it has as many vectors as its content has
\* chunks, and no chunk twice.
C25_RetryKeepsVectors ==
  /\ \A q \in QnaIds :
       (qnaPairs[q].state = "present" /\ qnaPairs[q].trainingStatus = TRAINED) =>
         OneVectorPerChunk("QNA", q, CombinedText(qnaPairs[q].question, qnaPairs[q].answer))
  /\ (textTraining.state = "present" /\ textTraining.trainingStatus = TRAINED) =>
         OneVectorPerChunk("TEXT", textTraining.id, textTraining.content)

(***************************************************************************)
(* Properties of cancellation during and before the traversal              *)
(***************************************************************************)
\* C26: after a PROCESSING job is marked CANCELLED the traversal stops
\* within at most 10 further URL attempts, whether they succeed, fail or
\* are skipped; once it has read CANCELLED it fetches no further page and
\* records no further CrawledPage.
C26_StopsWithinTenAttempts ==
  /\ []((cancel.result = "ok" /\ cancel.was = PROCESSING) =>
          Len(fetched) - cancel.at <= CancelCheckEvery)
  /\ [][\A w \in Workers :
          (cw[w].pc = "finish" /\ crawlJob.status = CANCELLED) =>
            fetched' = fetched /\ crawledPages' = crawledPages]_vars

\* C27: a crawl job cancelled while still QUEUED is never crawled: a worker
\* that picks it up later, or that read the status before the cancellation
\* and has yet to write PROCESSING, fetches no page, creates no CrawledPage
\* and leaves the status CANCELLED.
C27_CancelledQueuedNeverCrawled ==
  [][(crawlJob.status = CANCELLED /\ ~crawlJob.started) =>
       /\ crawlJob'.status = CANCELLED
       /\ ~crawlJob'.started
       /\ fetched' = fetched
       /\ crawledPages' = crawledPages]_vars

(***************************************************************************)
(* Properties of store failures during the crawl loop                      *)
(***************************************************************************)
\* the positions of processCrawlJob at a store write of the crawl loop
LoopWritePcs == {"storePage", "persist", "recordFailed", "finish"}

\* C28: a store write that fails during the crawl loop (the page, the
\* running counters, the failed page, the final status) is not counted as a
\* page failure; the job is marked FAILED with the error message and the
\* counters so far, and the error is re-raised to the queue.
C28_StoreFailureFailsJob ==
  [][\A w \in Workers :
       /\ (cw[w].pc \in LoopWritePcs /\ cw'[w] # cw[w]
           /\ env'.dbFaults < env.dbFaults) =>
            /\ cw'[w].pc = "markFailed"
            /\ cw'[w].pagesFailed = cw[w].pagesFailed
       /\ (cw[w].pc = "markFailed" /\ cw'[w].pc = "idle" /\ env' = env) =>
            /\ crawlJob'.status = FAILED
            /\ crawlJob'.errorMessage = cw[w].errorMessage
            /\ crawlJob'.pagesFound = cw[w].pagesFound
            /\ crawlJob'.pagesCrawled = cw[w].pagesCrawled
            /\ crawlJob'.pagesFailed = cw[w].pagesFailed
            /\ crawlQueue.owner = w => crawlQueue'.attemptsMade = crawlQueue.attemptsMade + 1]_vars

(***************************************************************************)
(* Properties of the counters under concurrent executions                  *)
(***************************************************************************)
\* the CrawledPage rows of the given status
PagesWithStatus(status) ==
  {i \in 1..Len(crawledPages) : crawledPages[i].status = status}

\* C29: when two workers execute the same job concurrently no counter
\* update is lost: once the executions have ended the stored pagesFound,
\* pagesCrawled and pagesFailed are the totals of the pages found, crawled
\* and failed by all of them.
C29_NoLostCounterUpdate ==
  (/\ \A w \in Workers : cw[w].pc = "idle"
   /\ crawlQueue.state = "completed"
   /\ crawlJob.status = COMPLETED) =>
    /\ crawlJob.pagesFound = Len(fetched)
    /\ crawlJob.pagesCrawled = Cardinality(PagesWithStatus(COMPLETED))
    /\ crawlJob.pagesFailed = Cardinality(PagesWithStatus(FAILED))

\* the text a training job for worker t's source would load now
CurrentTexts(t) ==
  IF tw[t].type = "qna"
    THEN <<CombinedText(qnaPairs[tw[t].sourceId].question,
                        qnaPairs[tw[t].sourceId].answer)>>
    ELSE <<textTraining.content>>

\* the last service call was a content update of worker t's source that returned
ContentUpdateReturned(t) ==
  /\ svc.steps = <<>>
  /\ svc.result = "ok"
  /\ svc.id = tw[t].sourceId
  /\ \/ tw[t].type = "qna" /\ svc.op = "updateQna" /\ svc.contentChanged
     \/ tw[t].type = "text" /\ svc.op = "upsertText" /\ (\E k \in 1..Len(svc.done) : svc.done[k] = "updateRow")

\* worker t writes TRAINED to its source in this step
MarksTrained(t) ==
  /\ tw[t].pc = "setTrained"
  /\ HasTrainingStatus(t)
  /\ tw'[t].pc = "idle"
  /\ IF tw[t].type = "qna"
       THEN qnaPairs'[tw[t].sourceId].trainingStatus = TRAINED
       ELSE textTraining'.trainingStatus = TRAINED

\* C30: once updateQna with a content change (or upsertTextTraining on an
\* existing block) has returned, a training job marks the source TRAINED only
\* if the content it loaded is the content the source has now; a job that
\* loaded the earlier content never marks it TRAINED
C30_StaleJobNeverMarksTrained ==
  [][\A t \in TWorkers :
       (ContentUpdateReturned(t) /\ MarksTrained(t)) => tw[t].texts = CurrentTexts(t)]_vars

(***************************************************************************)
(* Properties of the training lifecycle                                    *)
(***************************************************************************)
\* the jobs the last service call enqueued have all left the queue and no
\* worker is processing anything
QueueFinished ==
  /\ svc.result = "ok"
  /\ svc.enqueued # <<>>
  /\ trainingQueue = <<>>
  /\ \A t \in TWorkers : tw[t].pc = "idle"

\* the training statuses of the Q&A pairs and the text block that exist
PresentStatuses ==
  {qnaPairs[q].trainingStatus : q \in {p \in QnaIds : qnaPairs[p].state = "present"}}
    \cup (IF textTraining.state = "present" THEN {textTraining.trainingStatus} ELSE {})

\* C31: once the queue has finished the attempts of the training job enqueued
\* for an existing Q&A pair or text block, the source is TRAINED or FAILED,
\* never left PENDING or PROCESSING
C31_JobEndsTrainedOrFailed ==
  QueueFinished => PresentStatuses \subseteq {TRAINED, FAILED}

\* a job of the given type for the given source is waiting or being processed
JobQueuedFor(type, sourceId) ==
  \E k \in 1..Len(trainingQueue) :
    trainingQueue[k].type = type /\ trainingQueue[k].sourceId = sourceId

\* C32: outside a running service call, every Q&A pair and text block whose
\* training status is PENDING has a training job waiting in the queue or
\* being processed, also after a call whose enqueue failed or that stopped
\* between its record write and its enqueue
C32_PendingHasJob ==
  svc.steps = <<>> =>
    /\ \A q \in QnaIds :
         (qnaPairs[q].state = "present" /\ qnaPairs[q].trainingStatus = PENDING)
           => JobQueuedFor("qna", q)
    /\ (textTraining.state = "present" /\ textTraining.trainingStatus = PENDING)
           => JobQueuedFor("text", textTraining.id)

(***************************************************************************)
(* Properties of the traversal's accounting                                *)
(***************************************************************************)
\* C33: over all queue attempts of one crawl job the number of COMPLETED
\* CrawledPage rows under its job id never exceeds the job's page limit L,
\* and when the job is COMPLETED its pagesCrawled equals that number
C33_RowsWithinLimit ==
  crawlJob # NoJob =>
    /\ Cardinality(PagesWithStatus(COMPLETED)) <= LimitOf(crawlJob)
    /\ crawlJob.status = COMPLETED =>
         crawlJob.pagesCrawled = Cardinality(PagesWithStatus(COMPLETED))

\* no execution of the job has ended in a throw or lost its lock so far: the
\* rows stored are those of the one execution
FirstExecution ==
  /\ crawlQueue.attemptsMade = 0
  /\ env.stalls = (IF env.kind = "stall" THEN MaxStalls ELSE 0)

\* the CrawledPage rows stored for a URL
RowsOfUrl(url) == {i \in 1..Len(crawledPages) : crawledPages[i].url = url}

\* C34: in every state of one execution pagesFound is the number of distinct
\* normalized URLs attempted, an attempted URL counts in at most one of
\* pagesCrawled and pagesFailed and has at most one CrawledPage row, so
\* pagesCrawled + pagesFailed <= pagesFound, and the counters written at
\* completion are the numbers of COMPLETED and FAILED rows created
C34_PerUrlAccounting ==
  /\ \A w \in Workers :
       Traversing(w) =>
         /\ cw[w].pagesFound = Cardinality(cw[w].visited)
         /\ cw[w].pagesCrawled + cw[w].pagesFailed <= cw[w].pagesFound
  /\ FirstExecution =>
       /\ \A i \in 1..Len(crawledPages) :
            Cardinality(RowsOfUrl(crawledPages[i].url)) <= 1
       /\ (crawlJob # NoJob /\ crawlJob.status = COMPLETED) =>
            /\ crawlJob.pagesCrawled = Cardinality(PagesWithStatus(COMPLETED))
            /\ crawlJob.pagesFailed = Cardinality(PagesWithStatus(FAILED))

(***************************************************************************)
(* Properties of the frontier                                              *)
(***************************************************************************)
\* the fetches made so far whose URL is the given one
FetchesOf(url) == {i \in 1..Len(fetched) : fetched[i].url = url}

\* C35: within one execution no normalized URL is fetched more than once: a
\* URL goes to fetch only when its normalized form is not in the visited set,
\* which it enters at that moment and never leaves, whether the URL is linked
\* from several pages, is several times in the frontier, differs from an
\* earlier one by a fragment or a trailing slash, or closes a link cycle
C35_NoUrlFetchedTwice ==
  /\ [](FirstExecution =>
          \A i \in 1..Len(fetched) : Cardinality(FetchesOf(fetched[i].url)) = 1)
  /\ [][\A w \in Workers :
          /\ (cw[w].pc = "loop" /\ cw'[w].pc = "fetch") =>
               /\ cw'[w].normalizedUrl = normalizeUrl(Head(cw[w].queue).url)
               /\ cw'[w].normalizedUrl \notin cw[w].visited
               /\ cw'[w].normalizedUrl \in cw'[w].visited
          /\ (cw[w].pc = "fetch" /\ cw'[w].pc # "fetch") =>
               fetched' = Append(fetched, [url |-> cw[w].normalizedUrl,
                                           depth |-> cw[w].item.depth, by |-> w])
          /\ (Traversing(w) /\ Traversing(w)') =>
               cw[w].visited \subseteq cw'[w].visited]_vars

\* C35 witness: page 2 was fetched once, through the link ".../p2/#top" of the
\* seed page, and the frontier item of the link ".../p2" of page 1 has just
\* been taken from the queue and skipped; so was the second link to page 1
C35_Witness ==
  \E w \in Workers :
    /\ FirstExecution
    /\ cw[w].pc = "loop"
    /\ cw[w].item.url = PageUrl(2)
    /\ Cardinality(FetchesOf(PageUrl(2))) = 1
    /\ Cardinality(FetchesOf(PageUrl(1))) = 1
    /\ fetched[Len(fetched)].url # PageUrl(2)

\* seq is a prefix of longer
IsPrefix(seq, longer) ==
  Len(seq) <= Len(longer) /\ SubSeq(longer, 1, Len(seq)) = seq

\* the depths of the items of seq never decrease along seq
DepthsAscend(seq) ==
  \A i \in 1..Len(seq) : \A j \in i..Len(seq) : seq[i].depth <= seq[j].depth

\* C36: within one execution the frontier is FIFO: an item is taken from the
\* front and links are added at the back at depth + 1, so the depths of the
\* waiting items and of the successively fetched URLs never decrease, and a
\* URL is fetched at the smallest depth at which it was discovered: every
\* other frontier item for it is at least as deep
C36_FrontierFifo ==
  /\ [](\A w \in Workers :
          Traversing(w) =>
            /\ DepthsAscend(cw[w].queue)
            /\ \A k \in 1..Len(cw[w].queue) :
                 /\ cw[w].queue[k].depth >= cw[w].item.depth
                 /\ cw[w].queue[k].depth <= cw[w].item.depth + 1
                 /\ FirstExecution =>
                      \A i \in FetchesOf(normalizeUrl(cw[w].queue[k].url)) :
                        fetched[i].depth <= cw[w].queue[k].depth)
  /\ [](FirstExecution => DepthsAscend(fetched))
  /\ [][\A w \in Workers :
          (Traversing(w) /\ Traversing(w)' /\ cw'[w].queue # cw[w].queue) =>
            IF cw[w].pc = "loop"
              THEN /\ cw'[w].item = Head(cw[w].queue)
                   /\ cw'[w].queue = Tail(cw[w].queue)
              ELSE /\ IsPrefix(cw[w].queue, cw'[w].queue)
                   /\ \A k \in (Len(cw[w].queue) + 1)..Len(cw'[w].queue) :
                        cw'[w].queue[k].depth = cw[w].item.depth + 1]_vars

\* C36 witness: page 2 was discovered at depth 1 (on the seed page) and at
\* depth 2 (on page 1); it was fetched at depth 1, the crawl has gone on to
\* depth 2, and the deeper item for it is still waiting
C36_Witness ==
  \E w \in Workers :
    /\ FirstExecution
    /\ Traversing(w)
    /\ \E k \in 1..Len(cw[w].queue) :
         cw[w].queue[k].url = PageUrl(2) /\ cw[w].queue[k].depth = 2
    /\ \E i \in FetchesOf(PageUrl(2)) : fetched[i].depth = 1
    /\ fetched[Len(fetched)].depth = 2

(***************************************************************************)
(* Termination of the traversal                                            *)
(***************************************************************************)
\* the statuses after which a job is over
TerminalStatuses == {COMPLETED, FAILED, CANCELLED}

\* every started execution ends
C37_ExecutionEnds ==
  \A w \in Workers : (cw[w].pc # "idle") ~> (cw[w].pc = "idle")

\* C37: every execution of processCrawlJob terminates, whatever the link
\* graph and however many fetches fail: it makes at most one fetch per
\* visited URL, at most L of them successful, and when it ends the job has a
\* terminal status (COMPLETED or FAILED written by the execution, or the
\* CANCELLED it found)
C37_TerminatesWithTerminalStatus ==
  /\ C37_ExecutionEnds
  /\ [](\A w \in Workers : Traversing(w) => cw[w].pagesCrawled <= cw[w].limit)
  /\ [][\A w \in Workers :
          (cw[w].pc # "idle" /\ cw'[w].pc = "idle") =>
            crawlJob'.status \in TerminalStatuses]_vars

(***************************************************************************)
(* Properties of storeEmbeddings                                           *)
(***************************************************************************)
\* C38: storeEmbeddings for texts that produce n chunks returns n and adds
\* exactly n records under the given chatbot, source type and source id; the
\* record of chunk k (k = 0..n-1, counted across the batches of 20) holds the
\* chunk's text, the vector returned for it, chunkIndex k and totalChunks n;
\* with no chunk it returns 0 and adds nothing; rows already stored stay
C38_StoreEmbeddingsRecords ==
  calc.op = "storeEmbeddings" =>
    LET chunks == AllChunks(calc.texts)
        n == Len(chunks)
        old == Len(calc.before)
    IN  /\ calc.result = n
        /\ Len(calc.after) = old + n
        /\ SubSeq(calc.after, 1, old) = calc.before
        /\ \A k \in 0..(n - 1) :
             calc.after[old + k + 1] =
               [chatbotId |-> calc.source.chatbotId,
                sourceType |-> calc.source.sourceType,
                sourceId |-> calc.source.sourceId,
                content |-> chunks[k + 1],
                embedding |-> EmbeddingOf(chunks[k + 1]),
                chunkIndex |-> k,
                totalChunks |-> n]

\* C38 witness: a call whose texts give more than two full batches of
\* chunks, one text being whitespace only, on a table that held a row
C38_Witness ==
  /\ calc.op = "storeEmbeddings"
  /\ calc.result > 2 * BatchSize
  /\ Len(calc.texts) > calc.result
  /\ calc.before # <<>>
  /\ calc.after[Len(calc.after)].chunkIndex = calc.result - 1

\* C38 witness: texts that give no chunk
C38_WitnessNoChunks ==
  /\ calc.op = "storeEmbeddings"
  /\ calc.texts # <<>>
  /\ calc.result = 0
  /\ calc.after = calc.before

(***************************************************************************)
(* Properties of training jobs that run together                           *)
(***************************************************************************)
\* the rows of the table that are not vectors of the given source
VectorsOfOthers(table, sourceType, sourceId) ==
  SelectSeq(table, LAMBDA e : ~(e.sourceType = sourceType /\ e.sourceId = sourceId))

\* the vectors of the given source, in insertion order
VectorSeqOf(table, sourceType, sourceId) ==
  SelectSeq(table, LAMBDA e : e.sourceType = sourceType /\ e.sourceId = sourceId)

\* the stored vectors of a source are those one storeEmbeddings call on its
\* text, run alone on an empty table, stores
StoredAsAlone(sourceType, sourceId, text) ==
  LET alone == storeEmbeddings(<<>>, [chatbotId |-> BotId, sourceType |-> sourceType,
                                       sourceId |-> sourceId], <<text>>).table
      mine == VectorSeqOf(embeddings, sourceType, sourceId)
  IN  /\ Len(mine) = Len(alone)
      /\ \A k \in 1..Len(mine) :
           /\ mine[k].chatbotId = alone[k].chatbotId
           /\ mine[k].content = alone[k].content
           /\ mine[k].chunkIndex = alone[k].chunkIndex
           /\ mine[k].totalChunks = alone[k].totalChunks

\* every call has returned and every job has left the queue
AllJobsDone ==
  /\ svc.steps = <<>>
  /\ trainingQueue = <<>>
  /\ \A t \in TWorkers : tw[t].pc = "idle"

\* C39: training jobs for sources with different keys do not interfere: a
\* step of a job changes only the row and the vectors of its own source, and
\* when the jobs of a failure-free run have ended, every source is TRAINED
\* with the vectors its job would have stored running alone, whatever the
\* interleaving and the order of the jobs
C39_JobsDoNotInterfere ==
  /\ [][\A t \in TWorkers :
          (tw[t].pc # "idle" /\ tw'[t] # tw[t]) =>
            /\ \A q \in QnaIds :
                 ~(tw[t].type = "qna" /\ tw[t].sourceId = q) => qnaPairs'[q] = qnaPairs[q]
            /\ tw[t].type # "text" => textTraining' = textTraining
            /\ VectorsOfOthers(embeddings', SourceTypeOf(tw[t].type), tw[t].sourceId)
                 = VectorsOfOthers(embeddings, SourceTypeOf(tw[t].type), tw[t].sourceId)]_vars
  /\ []((env.kind = "pair" /\ AllJobsDone) =>
          /\ \A q \in QnaIds :
               qnaPairs[q].state = "present" =>
                 /\ qnaPairs[q].trainingStatus = TRAINED
                 /\ StoredAsAlone("QNA", q, CombinedText(qnaPairs[q].question,
                                                         qnaPairs[q].answer))
          /\ textTraining.state = "present" =>
               /\ textTraining.trainingStatus = TRAINED
               /\ StoredAsAlone("TEXT", textTraining.id, textTraining.content))

\* C39 witness: two workers are inside jobs for different sources at once,
\* one about to insert its vector, the other about to write TRAINED after
\* having inserted its own
C39_Witness ==
  /\ env.kind = "pair"
  /\ tw["t1w"].pc = "insert"
  /\ tw["t2w"].pc = "setTrained"
  /\ <<tw["t1w"].type, tw["t1w"].sourceId>> # <<tw["t2w"].type, tw["t2w"].sourceId>>
  /\ embeddings # <<>>

\* C39 witness: both jobs have ended and the vector of the source created
\* second was stored first
C39_WitnessDone ==
  /\ env.kind = "pair"
  /\ AllJobsDone
  /\ Len(embeddings) = 2
  /\ embeddings[1].sourceId # "q1"
  /\ qnaPairs["q1"].trainingStatus = TRAINED

(***************************************************************************)
(* Termination of chunkText                                                *)
(***************************************************************************)
\* the call of chunkText has returned
ChunkTextReturned == calc.op = "chunkTextLoop" /\ calc.pc = "returned"

\* a call of chunkText with an overlap below the chunk size returns, and
\* returns the chunks of the operator chunkText
C40_ReturnsWhenOverlapSmaller ==
  /\ (calc.op = "chunkTextLoop" /\ calc.overlap < calc.chunkSize) ~> ChunkTextReturned
  /\ []((ChunkTextReturned /\ calc.overlap < calc.chunkSize) =>
          calc.chunks = chunkText(calc.text, calc.chunkSize, calc.overlap))

\* C40: chunkText returns, with a finite list of chunks, for every text,
\* every chunkSize >= 1 and every overlap >= 0, an overlap equal to or larger
\* than chunkSize included
C40_ChunkTextTerminates ==
  (calc.op = "chunkTextLoop") ~> ChunkTextReturned

====
